---- MODULE Spec2Model ----
(***************************************************************************)
(* Topic hierarchy engine of lbs-knowledge-graph: the graph-writing and    *)
(* scoring operations of TopicHierarchyBuilder                             *)
(* (src/enrichment/topic_hierarchy_builder.py) over the MGraph store.      *)
(*                                                                         *)
(* Units.  A similarity is an integer number of tenths (6 is 0.6).  A      *)
(* score or centrality is an integer number of thousandths (1000 is 1.0).  *)
(* The arithmetic of the code is exact in these units for every edge count *)
(* the model reaches.                                                      *)
(***************************************************************************)
EXTENDS Integers, Sequences, FiniteSets, TLC

VARIABLES nodes, edges, topic_similarities, call, pairs_returned, pipeline

vars == <<nodes, edges, topic_similarities, call, pairs_returned, pipeline>>

----------------------------------------------------------------------------
(* Bounds *)

\* the most edges the store holds after a call that creates RELATED_TOPIC
\* edges, and after one that creates SUBTOPIC_OF edges
MaxEdges == 4
MaxSubtopicEdges == 2
\* the longest topic_ids list handed to build_related_topics, alone and
\* where it is interleaved with single edge creations
MaxIds == 3
MaxMixedIds == 2
\* the most (parent, child) pairs of a hierarchy map
MaxPairs == 2
\* the most HAS_TOPIC / SUBTOPIC_OF / RELATED_TOPIC edges at one topic in the
\* graphs the centrality specification starts from
MaxHasTopic == 12
MaxSubtopic == 6
MaxRelated == 15
\* the most SUBTOPIC_OF edges of the graphs the statistics are taken of
MaxHierarchyEdges == 3
\* the deepest nesting of calls followed (Python raises RecursionError at
\* its recursion limit), and the most iterations of a while loop followed
RecursionLimit == 6
MaxLoopIterations == 6
\* the longest topic list handed to cluster_topics, and the max_cluster_size
\* of the clusterer (the enricher passes 20), lowered so that lists of this
\* length hold a group above it
MaxTopics == 3
MaxLongTopics == 10
\* the most HAS_TOPIC edges of the graphs the analysis is made of
MaxPageEdges == 3
max_cluster_size == 2

----------------------------------------------------------------------------
(* Values *)

TopicIds == {"T1", "T2", "T3"}
PageIds == {"P1"}

\* the ids of the topics of a list, by position
TopicIdAt ==
    <<"T1", "T2", "T3", "T4", "T5", "T6", "T7", "T8", "T9", "T10", "T11", "T12">>

\* An optional value: Python's None is the empty tuple, a value v is <<v>>
None == <<>>
Some(v) == <<v>>
Val(x) == x[1]

\* similarities in tenths: one below the related threshold, one at it, one
\* above it
SimVals == {5, 6, 9}
SimOrNone == {None} \cup {Some(v) : v \in SimVals}

\* TopicHierarchyBuilder.__init__: related_threshold = 0.6
related_threshold == 6

\* an attribute map (a Python dict with string keys)
EmptyData == [k \in {} |-> 0]
Attr(key, value) == [k \in {key} |-> value]

\* dict(data) followed by data[key] = value
SetAttr(data, key, value) ==
    [k \in (DOMAIN data) \cup {key} |-> IF k = key THEN value ELSE data[k]]

Min(a, b) == IF a <= b THEN a ELSE b
Max(a, b) == IF a >= b THEN a ELSE b

----------------------------------------------------------------------------
(* The graph store (MGraph, graph/mgraph_compat.py): nodes is the          *)
(* id -> node map, edges the list of edges in insertion order.  Its        *)
(* operations follow the interface the builder consumes: get_node gives    *)
(* None for an absent id, add_edge always inserts, add_node inserts or     *)
(* replaces, get_edges and query filter.                                   *)

MNode(node_type, data) == [node_type |-> node_type, data |-> data]
MEdge(from_node, to_node, edge_type, data) ==
    [from_node |-> from_node, to_node |-> to_node,
     edge_type |-> edge_type, data |-> data]

\* get_node(id): the node, or None
get_node(ns, node_id) == IF node_id \in DOMAIN ns THEN Some(ns[node_id]) ELSE None

\* add_edge: always inserts, no merge
add_edge(es, from_node_id, to_node_id, edge_type, data) ==
    Append(es, MEdge(from_node_id, to_node_id, edge_type, data))

\* add_node: inserts, or replaces the node of that id
add_node(ns, node_type, node_id, data) ==
    [n \in (DOMAIN ns) \cup {node_id} |->
        IF n = node_id THEN MNode(node_type, data) ELSE ns[n]]

\* get_edges(to_node_id=.., edge_type=..)
get_edges_to(es, to_node_id, edge_type) ==
    SelectSeq(es, LAMBDA e : e.to_node = to_node_id /\ e.edge_type = edge_type)

\* get_edges(from_node_id=.., edge_type=..)
get_edges_from(es, from_node_id, edge_type) ==
    SelectSeq(es, LAMBDA e : e.from_node = from_node_id /\ e.edge_type = edge_type)

\* query(node_type=..): the ids of the nodes of that type
query(ns, node_type) == {n \in DOMAIN ns : ns[n].node_type = node_type}

----------------------------------------------------------------------------
(* Similarity lookups: a dict keyed by ordered pairs of topic ids *)

\* dict.get(key): the value, or None
dict_get(d, key) == IF key \in DOMAIN d THEN Some(d[key]) ELSE None

\* the dict holding value v under each key of keys
Entries(keys, v) == [k \in keys |-> v]

Both(a, b) == {<<a, b>>, <<b, a>>}

\* one pair above the threshold and two below it, every pair in both key
\* orders (the shape compute_similarity_matrix produces)
SymmetricTable ==
    Entries(Both("T1", "T2"), 9) @@ Entries(Both("T1", "T3") \cup Both("T2", "T3"), 5)

\* two pairs that reach the threshold, the third pair unknown
TwoPairTable == Entries(Both("T1", "T2"), 6) @@ Entries(Both("T1", "T3"), 9)

\* pairs stored in one key order only, the reverse of the sorted order
OneWayTable == Entries({<<"T2", "T1">>}, 6) @@ Entries({<<"T3", "T1">>}, 5)

\* a pair whose two key orders disagree
AsymmetricTable == Entries({<<"T1", "T2">>}, 5) @@ Entries({<<"T2", "T1">>}, 6)

EmptyTable == Entries({}, 5)

SimTables == {SymmetricTable, TwoPairTable, OneWayTable, AsymmetricTable, EmptyTable}

\* the order of ids under Python's string comparison
IdRank == [t \in TopicIds |-> CASE t = "T1" -> 1 [] t = "T2" -> 2 [] OTHER -> 3]

\* tuple(sorted([a, b]))
sorted_pair(a, b) == IF IdRank[a] <= IdRank[b] THEN <<a, b>> ELSE <<b, a>>

----------------------------------------------------------------------------
(* TopicHierarchyBuilder: edge creation.  Each operator gives the outcome  *)
(* of the call: the edge list it leaves, the exception it raised ("" when  *)
(* it returned normally) and, for the builders, the value returned.        *)

NoError == ""

\* format(value, ".3f"): a number is formatted, None has no such format
format_3f(value) == IF value = None THEN "TypeError" ELSE NoError

\* format(value, ".3f if similarity else 'N/A'"): the text after the colon
\* of the replacement field is the format specification, and it is not one
\* a number accepts; None accepts no non-empty specification at all
format_3f_if_similarity(value) == IF value = None THEN "TypeError" ELSE "ValueError"

\* float(x)
to_float(x) == IF x = None THEN "TypeError" ELSE NoError

\* create_subtopic_edge without the check of the parent
create_subtopic_edge_parent_unchecked(ns, es, child_id, parent_id, similarity) ==
    IF get_node(ns, child_id) = None THEN [edges |-> es, raised |-> NoError]
    ELSE LET edge_data == IF similarity # None
                          THEN Attr("similarity", Val(similarity))
                          ELSE EmptyData
             added == add_edge(es, child_id, parent_id, "SUBTOPIC_OF", edge_data)
         IN  [edges |-> added, raised |-> format_3f_if_similarity(similarity)]

create_subtopic_edge(ns, es, child_id, parent_id, similarity) ==
    IF get_node(ns, child_id) = None THEN [edges |-> es, raised |-> NoError]
    ELSE IF get_node(ns, parent_id) = None THEN [edges |-> es, raised |-> NoError]
    ELSE LET edge_data == IF similarity # None
                          THEN Attr("similarity", Val(similarity))
                          ELSE EmptyData
             added == add_edge(es, child_id, parent_id, "SUBTOPIC_OF", edge_data)
         IN  [edges |-> added, raised |-> format_3f_if_similarity(similarity)]

\* create_related_topic_edge without the reverse edge
create_related_topic_edge_one_way(ns, es, topic1_id, topic2_id, similarity) ==
    IF get_node(ns, topic1_id) = None \/ get_node(ns, topic2_id) = None
    THEN [edges |-> es, raised |-> NoError]
    ELSE IF to_float(similarity) # NoError
    THEN [edges |-> es, raised |-> to_float(similarity)]
    ELSE LET edge_data == Attr("similarity", Val(similarity))
             first == add_edge(es, topic1_id, topic2_id, "RELATED_TOPIC", edge_data)
         IN  [edges |-> first, raised |-> format_3f(similarity)]

\* create_related_topic_edge that skips a pair the store already relates
create_related_topic_edge_merging(ns, es, topic1_id, topic2_id, similarity) ==
    IF get_node(ns, topic1_id) = None \/ get_node(ns, topic2_id) = None
    THEN [edges |-> es, raised |-> NoError]
    ELSE IF to_float(similarity) # NoError
    THEN [edges |-> es, raised |-> to_float(similarity)]
    ELSE IF \E i \in 1..Len(es) : /\ es[i].edge_type = "RELATED_TOPIC"
                                   /\ es[i].from_node = topic1_id
                                   /\ es[i].to_node = topic2_id
    THEN [edges |-> es, raised |-> NoError]
    ELSE LET edge_data == Attr("similarity", Val(similarity))
             first == add_edge(es, topic1_id, topic2_id, "RELATED_TOPIC", edge_data)
             second == add_edge(first, topic2_id, topic1_id, "RELATED_TOPIC", edge_data)
         IN  [edges |-> second, raised |-> format_3f(similarity)]

create_related_topic_edge(ns, es, topic1_id, topic2_id, similarity) ==
    IF get_node(ns, topic1_id) = None \/ get_node(ns, topic2_id) = None
    THEN [edges |-> es, raised |-> NoError]
    ELSE IF to_float(similarity) # NoError
    THEN [edges |-> es, raised |-> to_float(similarity)]
    ELSE LET edge_data == Attr("similarity", Val(similarity))
             first == add_edge(es, topic1_id, topic2_id, "RELATED_TOPIC", edge_data)
             second == add_edge(first, topic2_id, topic1_id, "RELATED_TOPIC", edge_data)
         IN  [edges |-> second, raised |-> format_3f(similarity)]

\* A hierarchy map is the sequence of the dict's items in insertion order,
\* each a record [parent, children].  items_pairs is the sequence of
\* (parent, child) pairs the nested loops of build_hierarchy_from_clusters
\* visit.
RECURSIVE items_pairs(_)
items_pairs(hierarchy_map) ==
    IF hierarchy_map = <<>> THEN <<>>
    ELSE LET entry == Head(hierarchy_map)
         IN  [i \in 1..Len(entry.children) |-> <<entry.parent, entry.children[i]>>]
                \o items_pairs(Tail(hierarchy_map))

\* the loop body of build_hierarchy_from_clusters over the pairs still to
\* visit; an exception of create_subtopic_edge leaves the loop and the call
RECURSIVE hierarchy_loop(_, _, _, _, _)
hierarchy_loop(ns, sims, pairs, es, edge_count) ==
    IF pairs = <<>> THEN [edges |-> es, raised |-> NoError, ret |-> Some(edge_count)]
    ELSE LET parent_id == Head(pairs)[1]
             child_id == Head(pairs)[2]
             first == dict_get(sims, <<child_id, parent_id>>)
             similarity == IF first = None
                           THEN dict_get(sims, <<parent_id, child_id>>)
                           ELSE first
             r == create_subtopic_edge(ns, es, child_id, parent_id, similarity)
         IN  IF r.raised # NoError
             THEN [edges |-> r.edges, raised |-> r.raised, ret |-> None]
             ELSE hierarchy_loop(ns, sims, Tail(pairs), r.edges, edge_count + 1)

build_hierarchy_from_clusters(ns, es, sims, hierarchy_map) ==
    hierarchy_loop(ns, sims, items_pairs(hierarchy_map), es, 0)

\* similarity >= self.related_threshold
reaches_threshold_strictly(similarity) == similarity > related_threshold
reaches_threshold(similarity) == similarity >= related_threshold

\* the index pairs (i, j), i < j, in the order of the loops of
\* build_related_topics over a list of n ids
RECURSIVE index_pairs(_, _, _)
index_pairs(i, j, n) ==
    IF i > n THEN <<>>
    ELSE IF j > n THEN index_pairs(i + 1, i + 2, n)
    ELSE <<(<<i, j>>)>> \o index_pairs(i, j + 1, n)

\* the loop body of build_related_topics over the remaining index pairs
RECURSIVE related_loop(_, _, _, _, _, _, _)
related_loop(ns, sims, topic_ids, ij, es, edge_count, processed_pairs) ==
    IF ij = <<>> THEN [edges |-> es, raised |-> NoError, ret |-> Some(edge_count)]
    ELSE LET topic1_id == topic_ids[Head(ij)[1]]
             topic2_id == topic_ids[Head(ij)[2]]
             pair == sorted_pair(topic1_id, topic2_id)
             first == dict_get(sims, <<topic1_id, topic2_id>>)
             similarity == IF first = None
                           THEN dict_get(sims, <<topic2_id, topic1_id>>)
                           ELSE first
             rest == Tail(ij)
         IN  IF pair \in processed_pairs
             THEN related_loop(ns, sims, topic_ids, rest, es, edge_count, processed_pairs)
             ELSE IF similarity = None
             THEN related_loop(ns, sims, topic_ids, rest, es, edge_count, processed_pairs)
             ELSE IF reaches_threshold(Val(similarity))
             THEN LET r == create_related_topic_edge(ns, es, topic1_id, topic2_id, similarity)
                  IN  IF r.raised # NoError
                      THEN [edges |-> r.edges, raised |-> r.raised, ret |-> None]
                      ELSE related_loop(ns, sims, topic_ids, rest, r.edges,
                                        edge_count + 1, processed_pairs \cup {pair})
             ELSE related_loop(ns, sims, topic_ids, rest, es, edge_count, processed_pairs)

build_related_topics(ns, es, sims, topic_ids) ==
    related_loop(ns, sims, topic_ids, index_pairs(1, 2, Len(topic_ids)), es, 0, {})

----------------------------------------------------------------------------
(* TopicHierarchyBuilder: centrality *)

max_has_topic == 10
max_subtopics == 5
max_related == 10

\* 1.0 in thousandths
One == 1000

\* count / max_count without the cap
score_uncapped(count, max_count) == (count * One) \div max_count

\* min(count / max_count, 1.0)
score(count, max_count) == Min((count * One) \div max_count, One)

\* calculate_centrality counting the outgoing SUBTOPIC_OF edges
calculate_centrality_outgoing(es, topic_id) ==
    LET outgoing_has_topic == Len(get_edges_to(es, topic_id, "HAS_TOPIC"))
        incoming_subtopic == Len(get_edges_from(es, topic_id, "SUBTOPIC_OF"))
        related_topics == Len(get_edges_from(es, topic_id, "RELATED_TOPIC"))
        has_topic_score == score(outgoing_has_topic, max_has_topic)
        subtopic_score == score(incoming_subtopic, max_subtopics)
        related_score == score(related_topics, max_related)
    IN  (5 * has_topic_score + 3 * subtopic_score + 2 * related_score) \div 10

calculate_centrality(es, topic_id) ==
    LET outgoing_has_topic == Len(get_edges_to(es, topic_id, "HAS_TOPIC"))
        incoming_subtopic == Len(get_edges_to(es, topic_id, "SUBTOPIC_OF"))
        related_topics == Len(get_edges_from(es, topic_id, "RELATED_TOPIC"))
        has_topic_score == score(outgoing_has_topic, max_has_topic)
        subtopic_score == score(incoming_subtopic, max_subtopics)
        related_score == score(related_topics, max_related)
    IN  (5 * has_topic_score + 3 * subtopic_score + 2 * related_score) \div 10

\* the loop of calculate_all_centralities adding the score to the centrality
\* the node already carries
RECURSIVE centralities_loop_accumulating(_, _, _, _)
centralities_loop_accumulating(ns, es, todo, topic_nodes) ==
    IF todo = {} THEN ns
    ELSE LET topic == CHOOSE t \in todo : TRUE
             data == topic_nodes[topic].data
             stored == IF "centrality" \in DOMAIN data THEN data["centrality"] ELSE 0
             centrality == calculate_centrality(es, topic) + stored
             topic_data == SetAttr(data, "centrality", centrality)
         IN  centralities_loop_accumulating(add_node(ns, "Topic", topic, topic_data), es,
                                            todo \ {topic}, topic_nodes)

\* the loop of calculate_all_centralities over the Topic nodes still to do;
\* every node is re-added with the data it had when the loop began plus its
\* centrality
RECURSIVE centralities_loop(_, _, _, _)
centralities_loop(ns, es, todo, topic_nodes) ==
    IF todo = {} THEN ns
    ELSE LET topic == CHOOSE t \in todo : TRUE
             centrality == calculate_centrality(es, topic)
             topic_data == SetAttr(topic_nodes[topic].data, "centrality", centrality)
         IN  centralities_loop(add_node(ns, "Topic", topic, topic_data), es,
                               todo \ {topic}, topic_nodes)

\* calculate_all_centralities without the add_node that stores the score
calculate_all_centralities_unsaved(ns, es) ==
    [nodes |-> ns, ret |-> [t \in query(ns, "Topic") |-> calculate_centrality(es, t)]]

calculate_all_centralities(ns, es) ==
    LET topic_nodes == query(ns, "Topic")
    IN  [nodes |-> centralities_loop(ns, es, topic_nodes, ns),
         ret |-> [t \in topic_nodes |-> calculate_centrality(es, t)]]

----------------------------------------------------------------------------
(* TopicHierarchyBuilder: depth, path and statistics.  A result is the     *)
(* value returned (None when the call did not return) and the exception    *)
(* raised.                                                                 *)

Returned(v) == [ret |-> Some(v), raised |-> NoError]
Raised(error) == [ret |-> None, raised |-> error]
\* a call that has not come back within the steps followed
NotReturned == [ret |-> None, raised |-> NoError]

RECURSIVE get_topic_depth(_, _, _, _)
RECURSIVE parent_depths_loop(_, _, _, _, _)

\* the loop of _get_topic_depth that keeps the depth of the parent it
\* visited last
parent_depths_loop_last(es, parent_edges, visited, level, max_parent_depth) ==
    IF parent_edges = <<>> THEN Returned(max_parent_depth + 1)
    ELSE LET r == get_topic_depth(es, Head(parent_edges).to_node, visited, level + 1)
         IN  IF r.raised # NoError THEN r
             ELSE parent_depths_loop(es, Tail(parent_edges), visited, level, Val(r.ret))

\* the loop of _get_topic_depth over the parent edges still to follow; each
\* parent is visited with its own copy of visited, one call deeper
parent_depths_loop(es, parent_edges, visited, level, max_parent_depth) ==
    IF parent_edges = <<>> THEN Returned(max_parent_depth + 1)
    ELSE LET r == get_topic_depth(es, Head(parent_edges).to_node, visited, level + 1)
         IN  IF r.raised # NoError THEN r
             ELSE parent_depths_loop(es, Tail(parent_edges), visited, level,
                                     Max(max_parent_depth, Val(r.ret)))

\* _get_topic_depth that takes no notice of visited
get_topic_depth_unvisited(es, topic_id, visited, level) ==
    IF level > RecursionLimit THEN Raised("RecursionError")
    ELSE LET parent_edges == get_edges_from(es, topic_id, "SUBTOPIC_OF")
         IN  IF parent_edges = <<>> THEN Returned(0)
             ELSE parent_depths_loop(es, parent_edges, visited \cup {topic_id}, level, 0)

\* _get_topic_depth(topic_id, visited), called at nesting level
get_topic_depth(es, topic_id, visited, level) ==
    IF level > RecursionLimit THEN Raised("RecursionError")
    ELSE IF topic_id \in visited THEN Returned(0)
    ELSE LET parent_edges == get_edges_from(es, topic_id, "SUBTOPIC_OF")
         IN  IF parent_edges = <<>> THEN Returned(0)
             ELSE parent_depths_loop(es, parent_edges, visited \cup {topic_id}, level, 0)

\* the loop of _calculate_max_depth over the Topic nodes still to do; it
\* calls _get_topic_depth one call deeper than itself
RECURSIVE max_depth_loop(_, _, _)
max_depth_loop(es, todo, max_depth) ==
    IF todo = {} THEN Returned(max_depth)
    ELSE LET topic == CHOOSE t \in todo : TRUE
             r == get_topic_depth(es, topic, {}, 2)
         IN  IF r.raised # NoError THEN r
             ELSE max_depth_loop(es, todo \ {topic}, Max(max_depth, Val(r.ret)))

calculate_max_depth(ns, es) == max_depth_loop(es, query(ns, "Topic"), 0)

\* the while loop of get_topic_path that takes no notice of visited
RECURSIVE path_loop_unvisited(_, _, _, _, _)
path_loop_unvisited(es, path, visited, current_id, iterations) ==
    IF iterations > MaxLoopIterations THEN NotReturned
    ELSE LET parent_edges == get_edges_from(es, current_id, "SUBTOPIC_OF")
         IN  IF parent_edges = <<>> THEN Returned(path)
             ELSE LET parent_id == parent_edges[1].to_node
                  IN  path_loop_unvisited(es, Append(path, parent_id),
                                          visited \cup {parent_id}, parent_id,
                                          iterations + 1)

\* the while loop of get_topic_path, entered for the iterations-th time; a
\* call that is still looping after MaxLoopIterations has not returned
RECURSIVE path_loop(_, _, _, _, _)
path_loop(es, path, visited, current_id, iterations) ==
    IF iterations > MaxLoopIterations THEN NotReturned
    ELSE LET parent_edges == get_edges_from(es, current_id, "SUBTOPIC_OF")
         IN  IF parent_edges = <<>> THEN Returned(path)
             ELSE LET parent_id == parent_edges[1].to_node
                  IN  IF parent_id \in visited THEN Returned(path)
                      ELSE path_loop(es, Append(path, parent_id),
                                     visited \cup {parent_id}, parent_id, iterations + 1)

get_topic_path(es, topic_id) == path_loop(es, <<topic_id>>, {topic_id}, topic_id, 1)

\* the edges leaving one of the topics, in place of the sum over them all
outgoing_total_of_one(es, topics, edge_type) ==
    IF topics = {} THEN 0
    ELSE Len(get_edges_from(es, CHOOSE t \in topics : TRUE, edge_type))

\* sum(len(get_edges(from_node_id=t, edge_type=..)) for t in topics)
RECURSIVE outgoing_total(_, _, _)
outgoing_total(es, topics, edge_type) ==
    IF topics = {} THEN 0
    ELSE LET topic == CHOOSE t \in topics : TRUE
         IN  Len(get_edges_from(es, topic, edge_type))
               + outgoing_total(es, topics \ {topic}, edge_type)

get_hierarchy_statistics(ns, es) ==
    LET topic_nodes == query(ns, "Topic")
        num_topics == Cardinality(topic_nodes)
        root_topics == {t \in topic_nodes : get_edges_to(es, t, "SUBTOPIC_OF") # <<>>}
        child_topics == {t \in topic_nodes : get_edges_from(es, t, "SUBTOPIC_OF") # <<>>}
        depth == calculate_max_depth(ns, es)
    IN  IF depth.raised # NoError THEN depth
        ELSE Returned([total_topics |-> num_topics,
                       root_topics |-> Cardinality(root_topics),
                       child_topics |-> Cardinality(child_topics),
                       orphan_topics |-> num_topics - Cardinality(root_topics)
                                                    - Cardinality(child_topics),
                       subtopic_edges |-> outgoing_total(es, topic_nodes, "SUBTOPIC_OF"),
                       related_topic_edges |->
                           outgoing_total(es, topic_nodes, "RELATED_TOPIC") \div 2,
                       hierarchy_depth |-> Val(depth.ret)])

----------------------------------------------------------------------------
(* TopicClusterer (src/enrichment/topic_clusterer.py).  A similarity or a  *)
(* distance of the clusterer is an integer number of hundredths.           *)

\* a clusterer constructed with similarity_threshold=0.8, min_cluster_size=2
similarity_threshold == 80
min_cluster_size == 2

\* Topic(id, name, frequency, embedding, level)
Topic(id, frequency, embedding, level) ==
    [id |-> id, frequency |-> frequency, embedding |-> embedding, level |-> level]

\* embeddings: vectors of two coordinates and of length 10
Embeddings == {<<10, 0>>, <<8, 6>>, <<6, 8>>}

\* the cosine of two vectors of length 10, in hundredths:
\* 100 * (u . v) / (|u| * |v|)
cosine_similarity(u, v) == (100 * (u[1] * v[1] + u[2] * v[2])) \div (10 * 10)

\* _compute_similarity_matrix: np.array of the embeddings, then their
\* pairwise cosines; an embedding that is None makes the array one that
\* cosine_similarity rejects (a ValueError or a TypeError, by library
\* version: ArrayError here)
compute_similarity_matrix(topics) ==
    IF \E i \in 1..Len(topics) : topics[i].embedding = None
    THEN Raised("ArrayError")
    ELSE Returned([ij \in (1..Len(topics)) \X (1..Len(topics)) |->
                      cosine_similarity(Val(topics[ij[1]].embedding),
                                        Val(topics[ij[2]].embedding))])

\* similarity_matrix[np.ix_(indices, indices)]
sub_matrix(similarity_matrix, indices) ==
    [ij \in (1..Len(indices)) \X (1..Len(indices)) |->
        similarity_matrix[<<indices[ij[1]], indices[ij[2]]>>]]

\* 1 - similarity with the diagonal filled with 0, clipped to [0, 1]
distance(similarity_matrix, i, j) ==
    IF i = j THEN 0 ELSE Min(Max(100 - similarity_matrix[<<i, j>>], 0), 100)

\* the sum of the values of a function
RECURSIVE total(_)
total(f) ==
    IF DOMAIN f = {} THEN 0
    ELSE LET x == CHOOSE y \in DOMAIN f : TRUE
         IN  f[x] + total([y \in (DOMAIN f) \ {x} |-> f[y]])

\* the sum of the distances between the members of two groups; their
\* average-linkage distance is this sum over |A| * |B|
between(similarity_matrix, A, B) ==
    total([ij \in A \X B |-> distance(similarity_matrix, ij[1], ij[2])])

\* linkage(method='average') cut by fcluster(criterion='distance') at
\* threshold: the two groups at the least average distance are merged as
\* long as that distance is at most the threshold (average linkage never
\* merges at a smaller distance than it did before)
RECURSIVE agglomerate(_, _, _)
agglomerate(similarity_matrix, groups, threshold) ==
    LET pairs == {p \in groups \X groups : p[1] # p[2]}
        weight(p) == Cardinality(p[1]) * Cardinality(p[2])
        sum(p) == between(similarity_matrix, p[1], p[2])
    IN  IF pairs = {} THEN groups
        ELSE LET nearest == CHOOSE p \in pairs :
                               \A q \in pairs : sum(p) * weight(q) <= sum(q) * weight(p)
             IN  IF sum(nearest) <= threshold * weight(nearest)
                 THEN agglomerate(similarity_matrix,
                                  (groups \ {nearest[1], nearest[2]})
                                      \cup {nearest[1] \cup nearest[2]},
                                  threshold)
                 ELSE groups

\* the least member of a set of numbers
least(S) == CHOOSE x \in S : \A y \in S : x <= y

\* _hierarchical_clustering: the label of each of the n topics; a group is
\* labelled by its first member
hierarchical_clustering(n, similarity_matrix) ==
    LET threshold == 100 - similarity_threshold
        groups == agglomerate(similarity_matrix, {{i} : i \in 1..n}, threshold)
    IN  [i \in 1..n |-> least(CHOOSE g \in groups : i \in g)]

\* the members of a set of numbers in increasing order
RECURSIVE ascending(_)
ascending(S) == IF S = {} THEN <<>> ELSE <<least(S)>> \o ascending(S \ {least(S)})

\* the first index at which row sums are greatest (mean(axis=1).argmax())
argmax_mean(matrix, n) ==
    LET row(i) == total([j \in 1..n |-> matrix[<<i, j>>]])
    IN  least({i \in 1..n : \A k \in 1..n : row(k) <= row(i)})

\* TopicCluster(cluster_id, topics, centroid_topic, avg_similarity, size) of
\* the topics at the indices given; avg_similarity is the mean over the
\* pairs above the diagonal, in whole hundredths (np.mean of no value is nan)
TopicCluster(cluster_id, topics, indices, similarity_matrix) ==
    LET size == Len(indices)
        cluster_topics == [k \in 1..size |-> topics[indices[k]]]
        cluster_sim_matrix == sub_matrix(similarity_matrix, indices)
        above == {ij \in (1..size) \X (1..size) : ij[1] < ij[2]}
    IN  [cluster_id |-> cluster_id,
         topics |-> cluster_topics,
         centroid_topic |-> cluster_topics[argmax_mean(cluster_sim_matrix, size)],
         avg_similarity |-> IF above = {} THEN "nan"
                            ELSE total([ij \in above |-> cluster_sim_matrix[ij]])
                                   \div Cardinality(above),
         size |-> size]

RECURSIVE create_clusters(_, _, _, _)
RECURSIVE clusters_loop(_, _, _, _, _, _)

\* the loop of _create_clusters that keeps the groups below min_cluster_size
clusters_loop_keeping_small(topics, cluster_labels, similarity_matrix, labels, clusters, level) ==
    IF labels = <<>> THEN Returned(clusters)
    ELSE LET cluster_indices ==
                 ascending({i \in 1..Len(topics) : cluster_labels[i] = Head(labels)})
             cluster_topics == [k \in 1..Len(cluster_indices) |-> topics[cluster_indices[k]]]
         IN  IF Len(cluster_topics) > max_cluster_size
             THEN LET sub_similarity == sub_matrix(similarity_matrix, cluster_indices)
                      sub_labels == hierarchical_clustering(Len(cluster_topics), sub_similarity)
                      sub_clusters == create_clusters(cluster_topics, sub_labels,
                                                      sub_similarity, level + 1)
                  IN  IF sub_clusters.raised # NoError THEN sub_clusters
                      ELSE clusters_loop(topics, cluster_labels, similarity_matrix,
                                         Tail(labels), clusters \o Val(sub_clusters.ret),
                                         level)
             ELSE clusters_loop(topics, cluster_labels, similarity_matrix, Tail(labels),
                                Append(clusters,
                                       TopicCluster(Len(clusters) + 1, topics,
                                                    cluster_indices, similarity_matrix)),
                                level)

\* the loop of _create_clusters over the labels still to do
clusters_loop(topics, cluster_labels, similarity_matrix, labels, clusters, level) ==
    IF labels = <<>> THEN Returned(clusters)
    ELSE LET cluster_indices ==
                 ascending({i \in 1..Len(topics) : cluster_labels[i] = Head(labels)})
             cluster_topics == [k \in 1..Len(cluster_indices) |-> topics[cluster_indices[k]]]
         IN  IF Len(cluster_topics) < min_cluster_size
             THEN clusters_loop(topics, cluster_labels, similarity_matrix, Tail(labels),
                                clusters, level)
             ELSE IF Len(cluster_topics) > max_cluster_size
             THEN LET sub_similarity == sub_matrix(similarity_matrix, cluster_indices)
                      sub_labels == hierarchical_clustering(Len(cluster_topics), sub_similarity)
                      sub_clusters == create_clusters(cluster_topics, sub_labels,
                                                      sub_similarity, level + 1)
                  IN  IF sub_clusters.raised # NoError THEN sub_clusters
                      ELSE clusters_loop(topics, cluster_labels, similarity_matrix,
                                         Tail(labels), clusters \o Val(sub_clusters.ret),
                                         level)
             ELSE clusters_loop(topics, cluster_labels, similarity_matrix, Tail(labels),
                                Append(clusters,
                                       TopicCluster(Len(clusters) + 1, topics,
                                                    cluster_indices, similarity_matrix)),
                                level)

\* _create_clusters, called at nesting level
create_clusters(topics, cluster_labels, similarity_matrix, level) ==
    IF level > RecursionLimit THEN Raised("RecursionError")
    ELSE clusters_loop(topics, cluster_labels, similarity_matrix,
                       ascending({cluster_labels[i] : i \in 1..Len(topics)}), <<>>, level)

cluster_topics(topics) ==
    IF Len(topics) < 2 THEN Returned(<<>>)
    ELSE LET valid_topics == SelectSeq(topics, LAMBDA t : t.embedding # None)
         IN  IF Len(valid_topics) < 2 THEN Returned(<<>>)
             ELSE LET similarity_matrix == Val(compute_similarity_matrix(valid_topics).ret)
                      cluster_labels ==
                          hierarchical_clustering(Len(valid_topics), similarity_matrix)
                  IN  create_clusters(valid_topics, cluster_labels, similarity_matrix, 2)

\* sorted(topics, key=lambda t: t.frequency, reverse=True): the indices of
\* the topics by decreasing frequency, topics of equal frequency in the
\* order of the list
RECURSIVE sorted_by_frequency(_, _)
sorted_by_frequency(topics, todo) ==
    IF todo = {} THEN <<>>
    ELSE LET first == least({i \in todo :
                                \A k \in todo : topics[k].frequency <= topics[i].frequency})
         IN  <<first>> \o sorted_by_frequency(topics, todo \ {first})

\* sim >= self.similarity_threshold
meets_threshold_strictly(sim) == sim > similarity_threshold
meets_threshold(sim) == sim >= similarity_threshold

\* sim > max_sim: a root no more similar than the best so far does not
\* replace it
exceeds_or_equals(sim, max_sim) == sim >= max_sim
exceeds(sim, max_sim) == sim > max_sim

\* the loop of build_hierarchy over the root topics still to compare with
\* the topic at topic_idx: the best parent so far (None, or the root) and
\* its similarity; max_sim starts at -1
RECURSIVE best_parent_loop(_, _, _, _, _, _, _)
best_parent_loop(topics, similarity_matrix, topic_index, topic_idx, roots, max_sim, best_parent) ==
    IF roots = <<>> THEN best_parent
    ELSE LET root_topic == Head(roots)
             root_idx == topic_index[topics[root_topic].id]
             sim == similarity_matrix[<<topic_idx, root_idx>>]
         IN  IF exceeds(sim, max_sim) /\ meets_threshold(sim)
             THEN best_parent_loop(topics, similarity_matrix, topic_index, topic_idx,
                                   Tail(roots), sim, Some(root_topic))
             ELSE best_parent_loop(topics, similarity_matrix, topic_index, topic_idx,
                                   Tail(roots), max_sim, best_parent)

\* the child appended to the list of every key
append_child_to_every(hierarchy, key, child) ==
    [k \in 1..Len(hierarchy) |->
        [parent |-> hierarchy[k].parent, children |-> Append(hierarchy[k].children, child)]]

\* hierarchy[key].append(child): hierarchy is the sequence of the dict's
\* items [parent, children] in insertion order
append_child(hierarchy, key, child) ==
    [k \in 1..Len(hierarchy) |->
        IF hierarchy[k].parent = key
        THEN [parent |-> key, children |-> Append(hierarchy[k].children, child)]
        ELSE hierarchy[k]]

\* hierarchy[key] = []
set_empty(hierarchy, key) ==
    IF \E k \in 1..Len(hierarchy) : hierarchy[k].parent = key
    THEN [k \in 1..Len(hierarchy) |->
            IF hierarchy[k].parent = key THEN [parent |-> key, children |-> <<>>]
            ELSE hierarchy[k]]
    ELSE Append(hierarchy, [parent |-> key, children |-> <<>>])

\* topic.level = level, for the topic at index i
set_level(topics, i, level) ==
    [topics EXCEPT ![i] = [topics[i] EXCEPT !.level = level]]

\* the loop of build_hierarchy that assigns the root topics
RECURSIVE assign_roots(_, _, _)
assign_roots(topics, roots, hierarchy) ==
    IF roots = <<>> THEN [topics |-> topics, hierarchy |-> hierarchy]
    ELSE assign_roots(set_level(topics, Head(roots), 0), Tail(roots),
                      set_empty(hierarchy, topics[Head(roots)].id))

\* the loop of build_hierarchy over the topics after the roots; a topic is
\* named by its index in the list handed in
RECURSIVE assign_children(_, _, _, _, _, _)
assign_children(topics, similarity_matrix, topic_index, roots, rest, hierarchy) ==
    IF rest = <<>> THEN [topics |-> topics, hierarchy |-> hierarchy]
    ELSE LET topic == Head(rest)
             topic_idx == topic_index[topics[topic].id]
             best_parent == best_parent_loop(topics, similarity_matrix, topic_index,
                                             topic_idx, roots, -100, None)
         IN  IF best_parent # None
             THEN assign_children(set_level(topics, topic, 1), similarity_matrix,
                                  topic_index, roots, Tail(rest),
                                  append_child(hierarchy, topics[Val(best_parent)].id,
                                               topics[topic].id))
             ELSE assign_children(set_level(topics, topic, 0), similarity_matrix,
                                  topic_index, roots, Tail(rest),
                                  set_empty(hierarchy, topics[topic].id))

\* build_hierarchy that looks for a parent for the root topics as well
build_hierarchy_roots_assigned(topics) ==
    LET n == Len(topics)
        sorted_topics == sorted_by_frequency(topics, 1..n)
        root_count == Max(1, n \div 5)
        root_topics == SubSeq(sorted_topics, 1, Min(root_count, n))
    IN  IF n < 2 THEN [ret |-> Some(<<>>), raised |-> NoError, topics |-> topics]
        ELSE LET similarity_matrix == compute_similarity_matrix(topics)
                 topic_index == [id \in {topics[i].id : i \in 1..n} |->
                                    CHOOSE i \in 1..n :
                                        /\ topics[i].id = id
                                        /\ \A k \in (i + 1)..n : topics[k].id # id]
             IN  IF similarity_matrix.raised # NoError
                 THEN [ret |-> None, raised |-> similarity_matrix.raised, topics |-> topics]
                 ELSE LET rooted == assign_roots(topics, root_topics, <<>>)
                          done == assign_children(rooted.topics, Val(similarity_matrix.ret),
                                                  topic_index, root_topics,
                                                  sorted_topics,
                                                  rooted.hierarchy)
                      IN  [ret |-> Some(done.hierarchy), raised |-> NoError,
                           topics |-> done.topics]

\* build_hierarchy: the map returned (the sequence of its items), the
\* exception raised, and the topics with the levels it gave them
build_hierarchy(topics) ==
    LET n == Len(topics)
        sorted_topics == sorted_by_frequency(topics, 1..n)
        root_count == Max(1, n \div 5)
        root_topics == SubSeq(sorted_topics, 1, Min(root_count, n))
    IN  IF n < 2 THEN [ret |-> Some(<<>>), raised |-> NoError, topics |-> topics]
        ELSE LET similarity_matrix == compute_similarity_matrix(topics)
                 topic_index == [id \in {topics[i].id : i \in 1..n} |->
                                    CHOOSE i \in 1..n :
                                        /\ topics[i].id = id
                                        /\ \A k \in (i + 1)..n : topics[k].id # id]
             IN  IF similarity_matrix.raised # NoError
                 THEN [ret |-> None, raised |-> similarity_matrix.raised, topics |-> topics]
                 ELSE LET rooted == assign_roots(topics, root_topics, <<>>)
                          done == assign_children(rooted.topics, Val(similarity_matrix.ret),
                                                  topic_index, root_topics,
                                                  SubSeq(sorted_topics, root_count + 1, n),
                                                  rooted.hierarchy)
                      IN  [ret |-> Some(done.hierarchy), raised |-> NoError,
                           topics |-> done.topics]

----------------------------------------------------------------------------
(* TopicAnalysis (src/enrichment/topic_analysis.py).  A position is an     *)
(* integer number of tenths.  A mean or a sort key is the fraction         *)
(* <<numerator, denominator>>, the denominator positive; the standard      *)
(* deviation is kept as the variance <<numerator, denominator>> whose root *)
(* it is, and the entropy as the frequencies it is computed from.          *)

\* query(node_type=..) as the list the loops walk: the ids in the order the
\* store lists them
query_list(ns, node_type) ==
    SelectSeq(TopicIdAt \o <<"P1", "P2">>,
              LAMBDA n : n \in DOMAIN ns /\ ns[n].node_type = node_type)

\* list.sort(key=.., reverse=True): the indices of the keys by decreasing
\* key, equal keys in their order in the list
RECURSIVE sorted_descending(_, _)
sorted_descending(keys, todo) ==
    IF todo = {} THEN <<>>
    ELSE LET first == least({i \in todo :
                                \A k \in todo : keys[k][1] * keys[i][2]
                                                  <= keys[i][1] * keys[k][2]})
         IN  <<first>> \o sorted_descending(keys, todo \ {first})

\* np.median: the middle of the sorted numbers, or the mean of the two
\* middle ones
median(xs) ==
    LET n == Len(xs)
        order == sorted_descending([i \in 1..n |-> <<xs[i], 1>>], 1..n)
    IN  IF n % 2 = 1 THEN <<xs[order[(n + 1) \div 2]], 1>>
        ELSE <<xs[order[n \div 2]] + xs[order[(n \div 2) + 1]], 2>>

\* a topic with this many pages is a common one
common_frequency == 5

analyze_distribution(ns, es) ==
    LET topic_nodes == query_list(ns, "Topic")
        n == Len(topic_nodes)
        frequencies == [i \in 1..n |-> Len(get_edges_to(es, topic_nodes[i], "HAS_TOPIC"))]
        values == {frequencies[i] : i \in 1..n}
    IN  IF topic_nodes = <<>> THEN Returned(EmptyData)
        ELSE Returned(
               [total_topics |-> n,
                total_frequency |-> total(frequencies),
                avg_frequency |-> <<total(frequencies), n>>,
                median_frequency |-> median(frequencies),
                std_frequency |->
                    <<n * total([i \in 1..n |-> frequencies[i] * frequencies[i]])
                         - total(frequencies) * total(frequencies), n * n>>,
                min_frequency |-> least(values),
                max_frequency |-> CHOOSE x \in values : \A y \in values : y <= x,
                unique_topics |-> Cardinality({i \in 1..n : frequencies[i] = 1}),
                common_topics |->
                    Cardinality({i \in 1..n : frequencies[i] >= common_frequency})])

\* edge.data.get('position', 0.5)
default_position == 5

\* data.get(key, default) on the data of a node or an edge: the value read
\* and the data as the read leaves it
data_get_storing_default(data, key, default) ==
    [value |-> IF key \in DOMAIN data THEN data[key] ELSE default,
     data |-> SetAttr(data, key, IF key \in DOMAIN data THEN data[key] ELSE default)]

data_get(data, key, default) ==
    [value |-> IF key \in DOMAIN data THEN data[key] ELSE default, data |-> data]

\* the loop of find_trending_topics and find_niche_topics over the topics
\* still to visit: the TopicStats of those whose frequency is at least low
\* and at most high, and the nodes as reading them leaves them
RECURSIVE stats_loop(_, _, _, _, _, _)
stats_loop(ns, es, todo, low, high, found) ==
    IF todo = <<>> THEN [nodes |-> ns, found |-> found]
    ELSE LET topic == Head(todo)
             has_topic_edges == get_edges_to(es, topic, "HAS_TOPIC")
             frequency == Len(has_topic_edges)
             positions == [i \in 1..frequency |->
                              data_get(has_topic_edges[i].data, "position",
                                       default_position).value]
             centrality == data_get(ns[topic].data, "centrality", 0)
             stats == [topic_id |-> topic,
                       frequency |-> frequency,
                       avg_position |-> IF positions # <<>>
                                        THEN <<total(positions), frequency>>
                                        ELSE <<default_position, 1>>,
                       co_occurrence_count |->
                           Len(get_edges_from(es, topic, "RELATED_TOPIC")),
                       centrality |-> centrality.value]
         IN  IF frequency < low \/ frequency > high
             THEN stats_loop(ns, es, Tail(todo), low, high, found)
             ELSE stats_loop([ns EXCEPT ![topic] = MNode(ns[topic].node_type,
                                                         centrality.data)],
                             es, Tail(todo), low, high, Append(found, stats))

\* sorted by t.frequency * (1 + t.centrality), greatest first
find_trending_topics(ns, es, threshold) ==
    LET r == stats_loop(ns, es, query_list(ns, "Topic"), threshold, Len(es), <<>>)
        keys == [i \in 1..Len(r.found) |->
                    <<r.found[i].frequency * (One + r.found[i].centrality), One>>]
        order == sorted_descending(keys, 1..Len(r.found))
    IN  [nodes |-> r.nodes, raised |-> NoError,
         ret |-> Some([i \in 1..Len(r.found) |-> r.found[order[i]]])]

\* sorted by (1 - t.avg_position) * (1 + t.centrality), greatest first
find_niche_topics(ns, es, max_frequency) ==
    LET r == stats_loop(ns, es, query_list(ns, "Topic"), 0, max_frequency, <<>>)
        keys == [i \in 1..Len(r.found) |->
                    LET t == r.found[i]
                    IN  <<(10 * t.avg_position[2] - t.avg_position[1]) * (One + t.centrality),
                          10 * t.avg_position[2] * One>>]
        order == sorted_descending(keys, 1..Len(r.found))
    IN  [nodes |-> r.nodes, raised |-> NoError,
         ret |-> Some([i \in 1..Len(r.found) |-> r.found[order[i]]])]

\* the inner loop of calculate_cooccurrence over page_topics[i:], for
\* topic1 at idx1, without the mirrored increment
RECURSIVE cooccurrence_inner_one_way(_, _, _, _)
cooccurrence_inner_one_way(topic_nodes, idx1, rest, cooccurrence) ==
    IF rest = <<>> THEN cooccurrence
    ELSE IF \A k \in 1..Len(topic_nodes) : topic_nodes[k] # Head(rest)
    THEN cooccurrence_inner_one_way(topic_nodes, idx1, Tail(rest), cooccurrence)
    ELSE LET idx2 == CHOOSE k \in 1..Len(topic_nodes) : topic_nodes[k] = Head(rest)
             once == [cooccurrence EXCEPT ![<<idx1, idx2>>] = @ + 1]
         IN  cooccurrence_inner_one_way(topic_nodes, idx1, Tail(rest), once)

\* the inner loop of calculate_cooccurrence over page_topics[i:], for
\* topic1 at idx1
RECURSIVE cooccurrence_inner(_, _, _, _)
cooccurrence_inner(topic_nodes, idx1, rest, cooccurrence) ==
    IF rest = <<>> THEN cooccurrence
    ELSE IF \A k \in 1..Len(topic_nodes) : topic_nodes[k] # Head(rest)
    THEN cooccurrence_inner(topic_nodes, idx1, Tail(rest), cooccurrence)
    ELSE LET idx2 == CHOOSE k \in 1..Len(topic_nodes) : topic_nodes[k] = Head(rest)
             once == [cooccurrence EXCEPT ![<<idx1, idx2>>] = @ + 1]
             both == IF idx1 # idx2 THEN [once EXCEPT ![<<idx2, idx1>>] = @ + 1] ELSE once
         IN  cooccurrence_inner(topic_nodes, idx1, Tail(rest), both)

\* the loop of calculate_cooccurrence over the topics of a page from
\* position i on
RECURSIVE cooccurrence_page(_, _, _, _)
cooccurrence_page(topic_nodes, page_topics, i, cooccurrence) ==
    IF i > Len(page_topics) THEN cooccurrence
    ELSE IF \A k \in 1..Len(topic_nodes) : topic_nodes[k] # page_topics[i]
    THEN cooccurrence_page(topic_nodes, page_topics, i + 1, cooccurrence)
    ELSE LET idx1 == CHOOSE k \in 1..Len(topic_nodes) : topic_nodes[k] = page_topics[i]
         IN  cooccurrence_page(topic_nodes, page_topics, i + 1,
                               cooccurrence_inner(topic_nodes, idx1,
                                                  SubSeq(page_topics, i, Len(page_topics)),
                                                  cooccurrence))

\* the loop of calculate_cooccurrence over the pages still to visit
RECURSIVE cooccurrence_pages(_, _, _, _)
cooccurrence_pages(es, topic_nodes, page_nodes, cooccurrence) ==
    IF page_nodes = <<>> THEN cooccurrence
    ELSE LET topic_edges == get_edges_from(es, Head(page_nodes), "HAS_TOPIC")
             page_topics == [k \in 1..Len(topic_edges) |-> topic_edges[k].to_node]
         IN  cooccurrence_pages(es, topic_nodes, Tail(page_nodes),
                                cooccurrence_page(topic_nodes, page_topics, 1, cooccurrence))

\* calculate_cooccurrence: the topics in index order and the matrix, keyed
\* by index pairs; the matrix of no topics is empty
calculate_cooccurrence(ns, es) ==
    LET topic_nodes == query_list(ns, "Topic")
        n_topics == Len(topic_nodes)
        zeros == [ij \in (1..n_topics) \X (1..n_topics) |-> 0]
    IN  Returned([topics |-> topic_nodes,
                  matrix |-> IF n_topics = 0 THEN zeros
                             ELSE cooccurrence_pages(es, topic_nodes,
                                                     query_list(ns, "Page"), zeros)])

calculate_diversity_metrics(ns, es) ==
    LET page_nodes == query_list(ns, "Page")
        topic_nodes == query_list(ns, "Topic")
        topics_per_page == [i \in 1..Len(page_nodes) |->
                               Len(get_edges_from(es, page_nodes[i], "HAS_TOPIC"))]
        pages_with_topics == Cardinality({i \in 1..Len(page_nodes) : topics_per_page[i] > 0})
        topic_frequencies == [i \in 1..Len(topic_nodes) |->
                                 Len(get_edges_to(es, topic_nodes[i], "HAS_TOPIC"))]
        total_freq == total(topic_frequencies)
        entropy == IF total_freq > 0
                   THEN SelectSeq(topic_frequencies, LAMBDA f : f > 0)
                   ELSE <<>>
    IN  IF page_nodes = <<>> \/ topic_nodes = <<>> THEN Returned(EmptyData)
        ELSE Returned(
               [total_pages |-> Len(page_nodes),
                total_topics |-> Len(topic_nodes),
                topic_coverage |-> <<pages_with_topics, Len(page_nodes)>>,
                avg_topics_per_page |-> <<total(topics_per_page), Len(page_nodes)>>,
                median_topics_per_page |-> median(topics_per_page),
                max_topics_per_page |->
                    CHOOSE x \in {topics_per_page[i] : i \in 1..Len(page_nodes)} :
                        \A i \in 1..Len(page_nodes) : topics_per_page[i] <= x,
                topic_entropy |-> entropy,
                normalized_entropy |-> IF total_freq > 0 /\ Len(topic_nodes) > 1
                                       THEN [entropy |-> entropy,
                                             max_entropy |-> Len(topic_nodes)]
                                       ELSE [entropy |-> <<>>, max_entropy |-> 1]])

----------------------------------------------------------------------------
(* TopicClusterEnricher (src/enrichment/topic_cluster_enricher.py).  run   *)
(* makes its steps in order; pipeline holds the step run makes next (pc),  *)
(* the locals of run, the step that raised and its exception, the value    *)
(* run returns, the exception that leaves run, and how often the embedding *)
(* generator was closed.  The graph is nodes and edges, and the             *)
(* similarities local is topic_similarities, in tenths.                    *)

\* the enricher as constructed, before run is called
NoPipeline ==
    [pc |-> "load_graph", embeddings |-> EmptyData, topics |-> <<>>, clusters |-> <<>>,
     hierarchy |-> <<>>, analysis |-> None, failed |-> "", error |-> NoError,
     result |-> None, propagated |-> NoError, closed |-> 0]

\* the vectors the embedding generator answers with
PipelineEmbeddings == {<<10, 0>>, <<8, 6>>, <<0, 10>>}

\* convert_to_topic_objects: a Topic for every Topic node that has an
\* embedding, its frequency the number of its HAS_TOPIC edges
convert_to_topic_objects(ns, es, embeddings) ==
    LET ids == SelectSeq(query_list(ns, "Topic"), LAMBDA n : n \in DOMAIN embeddings)
    IN  [i \in 1..Len(ids) |->
            Topic(ids[i], Len(get_edges_to(es, ids[i], "HAS_TOPIC")),
                  Some(embeddings[ids[i]]), 0)]

\* compute_similarity_matrix of the enricher: the dict of the similarities
\* of the pairs of topics, both orders; cosine_similarity refuses the empty
\* array of no topics
compute_similarities(topics) ==
    LET n == Len(topics)
    IN  IF n = 0 THEN Raised("ValueError")
        ELSE Returned([p \in {<<topics[i].id, topics[j].id>> :
                                 i \in 1..n, j \in (1..n)} \ {<<topics[i].id, topics[i].id>> :
                                                                i \in 1..n} |->
                          LET i == CHOOSE k \in 1..n : topics[k].id = p[1]
                              j == CHOOSE k \in 1..n : topics[k].id = p[2]
                          IN  cosine_similarity(Val(topics[i].embedding),
                                                Val(topics[j].embedding)) \div 10])

\* run_analysis: the analysis dict, and the nodes as the reads leave them
run_analysis(ns, es) ==
    LET distribution == analyze_distribution(ns, es)
        trending == find_trending_topics(ns, es, 5)
        niche == find_niche_topics(trending.nodes, es, 2)
        diversity == calculate_diversity_metrics(niche.nodes, es)
        hierarchy_stats == get_hierarchy_statistics(niche.nodes, es)
    IN  IF hierarchy_stats.raised # NoError
        THEN [nodes |-> niche.nodes, raised |-> hierarchy_stats.raised, ret |-> None]
        ELSE [nodes |-> niche.nodes, raised |-> NoError,
              ret |-> Some([distribution |-> Val(distribution.ret),
                            diversity |-> Val(diversity.ret),
                            hierarchy |-> Val(hierarchy_stats.ret),
                            trending_topics_count |-> Len(Val(trending.ret)),
                            niche_topics_count |-> Len(Val(niche.ret))])]

\* except ValueError in place of except Exception
caught_if_value_error(error) == error = "ValueError"

\* except Exception: the exceptions the steps raise are all of that class
caught(error) ==
    error \in {"FileNotFoundError", "EmbeddingError", "ValueError", "TypeError",
               "RecursionError", "OSError"}

\* where run goes when the try block is left, by its return statement or
\* through the except clause: the finally clause
after_try_skipping_finally == "returned"
after_try == "finally"

----------------------------------------------------------------------------
(* Inputs *)

\* sequences over S of length at most n
RECURSIVE SeqsUpTo(_, _)
SeqsUpTo(S, n) ==
    IF n = 0 THEN {<<>>}
    ELSE LET shorter == SeqsUpTo(S, n - 1)
         IN  shorter \cup {Append(s, x) : s \in {t \in shorter : Len(t) = n - 1}, x \in S}

\* the topic_ids lists handed to build_related_topics
IdLists == SeqsUpTo(TopicIds, MaxIds)
MixedIdLists == SeqsUpTo(TopicIds, MaxMixedIds)

\* the similarities handed to a single edge creation
DirectSims == {None, Some(6)}

\* hierarchy maps: at most two parents, distinct, with at most MaxPairs
\* children between them
HierarchyEntries ==
    {[parent |-> p, children |-> c] : p \in TopicIds, c \in SeqsUpTo(TopicIds, MaxPairs)}

HierarchyMaps ==
    {<<>>} \cup {<<e>> : e \in HierarchyEntries}
           \cup {m \in {<<e, f>> : e \in HierarchyEntries, f \in HierarchyEntries} :
                    /\ m[1].parent # m[2].parent
                    /\ Len(m[1].children) + Len(m[2].children) <= MaxPairs}

GraphOf(topics) ==
    [n \in topics \cup PageIds |->
        IF n \in topics THEN MNode("Topic", EmptyData) ELSE MNode("Page", EmptyData)]

\* the topic nodes of the graphs the behaviours start from: every topic, or
\* T3 missing
TopicSets == {TopicIds, {"T1", "T2"}}

\* the SUBTOPIC_OF edges a graph over the topics can hold, self-loops
\* included, and the edge lists of at most MaxHierarchyEdges of them
SubtopicEdges == {MEdge(c, p, "SUBTOPIC_OF", EmptyData) : c \in TopicIds, p \in TopicIds}
SubtopicEdgeLists == SeqsUpTo(SubtopicEdges, MaxHierarchyEdges)

\* a topic's frequency and embedding (None: the topic has no embedding)
Frequencies == {1, 2}
EmbeddingOrNone == {None} \cup {Some(e) : e \in Embeddings}

\* the lists of at most MaxTopics topics, every frequency and embedding;
\* the topics of a list carry the same level, 0 or 1, from before the call
TopicLists ==
    UNION {{[i \in 1..n |-> Topic(TopicIdAt[i], c[i][1], c[i][2], level)] :
                c \in [1..n -> Frequencies \X EmbeddingOrNone], level \in {0, 1}} :
           n \in 0..MaxTopics}

\* longer lists, of MaxTopics + 1 to MaxLongTopics topics, all with
\* embeddings: two topics of frequency 3, one with the first embedding and
\* one with any of the three, the others of frequency 1 with the embeddings
\* in rotation
LongTopicLists ==
    LET E == <<(<<10, 0>>), (<<8, 6>>), (<<6, 8>>)>>
    IN  UNION {{[i \in 1..n |->
                    IF i = ab[1] THEN Topic(TopicIdAt[i], 3, Some(E[1]), 1)
                    ELSE IF i = ab[2] THEN Topic(TopicIdAt[i], 3, Some(E[other]), 1)
                    ELSE Topic(TopicIdAt[i], 1, Some(E[((i + shift) % 3) + 1]), 1)] :
                 ab \in {p \in (1..n) \X (1..n) : p[1] # p[2]},
                 other \in 1..3, shift \in 0..2} :
               n \in (MaxTopics + 1)..MaxLongTopics}

\* the graphs a graph file holds: the first topics of T1, T2, T3 (or none),
\* two pages, and for every topic one or two HAS_TOPIC edges, from P1 and
\* then from P2
GraphFiles ==
    {[nodes |-> [n \in {TopicIdAt[i] : i \in 1..k} \cup {"P1", "P2"} |->
                    IF n \in {"P1", "P2"} THEN MNode("Page", EmptyData)
                    ELSE MNode("Topic", EmptyData)],
      edges |-> [e \in 1..Len(pages) |->
                    MEdge(pages[e][1], pages[e][2], "HAS_TOPIC", EmptyData)]] :
        k \in 0..3,
        pages \in {SelectSeq(<<(<<"P1", "T1", 1>>), (<<"P2", "T1", 2>>), (<<"P1", "T2", 1>>),
                              (<<"P2", "T2", 2>>), (<<"P1", "T3", 1>>), (<<"P2", "T3", 2>>)>>,
                             LAMBDA e : e[3] <= f[e[2]]) : f \in [TopicIds -> Frequencies]}}

\* the graphs the analysis is made of.  The nodes: two pages and no topic,
\* or T1 and T2, T1 with or without a stored centrality.  The edges: at
\* most MaxPageEdges HAS_TOPIC edges from the pages to T1 and T2 (repeats
\* allowed, one edge with a position, one edge that leads to a page), and
\* after them no topic edge, a SUBTOPIC_OF cycle, or a RELATED_TOPIC pair
\* under a SUBTOPIC_OF self-loop
AnalysisGraphs ==
    LET has_topic == {MEdge(p, t, "HAS_TOPIC", EmptyData) : p \in {"P1", "P2"}, t \in {"T1", "T2"}}
                       \cup {MEdge("P1", "P2", "HAS_TOPIC", EmptyData),
                             MEdge("P2", "T1", "HAS_TOPIC", Attr("position", 2))}
        pages == [n \in {"P1", "P2"} |-> MNode("Page", EmptyData)]
    IN  {[nodes |-> ns, edges |-> page_edges \o topic_edges] :
            ns \in {pages,
                    pages @@ [n \in {"T1", "T2"} |-> MNode("Topic", EmptyData)],
                    pages @@ [n \in {"T1", "T2"} |->
                                 MNode("Topic", IF n = "T1" THEN Attr("centrality", 500)
                                                ELSE EmptyData)]},
            page_edges \in SeqsUpTo(has_topic, MaxPageEdges),
            topic_edges \in {<<>>,
                             <<MEdge("T1", "T2", "SUBTOPIC_OF", EmptyData),
                               MEdge("T2", "T1", "SUBTOPIC_OF", EmptyData)>>,
                             <<MEdge("T1", "T2", "RELATED_TOPIC", Attr("similarity", 6)),
                               MEdge("T2", "T1", "RELATED_TOPIC", Attr("similarity", 6)),
                               MEdge("T2", "T2", "SUBTOPIC_OF", EmptyData)>>}}

\* n copies of the edges es
RECURSIVE Copies(_, _)
Copies(n, es) == IF n = 0 THEN <<>> ELSE es \o Copies(n - 1, es)

----------------------------------------------------------------------------
(* Calls.  call records the last call: its name, its arguments, the        *)
(* exception it raised, the value it returned, the number of edges the     *)
(* store held when it was made and, for build_related_topics and           *)
(* calculate_all_centralities, whether the call before it was the same     *)
(* call with the same arguments.                                           *)

NoCall ==
    [op |-> "", args |-> <<>>, raised |-> NoError, ret |-> None, before |-> 0,
     repeated |-> FALSE]

Call(op, args, raised, ret) ==
    [op |-> op, args |-> args, raised |-> raised, ret |-> ret, before |-> Len(edges),
     repeated |-> FALSE]

CallCreateSubtopicEdge(child_id, parent_id, similarity) ==
    \E r \in {create_subtopic_edge(nodes, edges, child_id, parent_id, similarity)} :
        /\ Len(r.edges) <= MaxSubtopicEdges
        /\ edges' = r.edges
        /\ call' = Call("create_subtopic_edge",
                        <<child_id, parent_id, similarity>>, r.raised, None)
        /\ UNCHANGED <<nodes, topic_similarities>>

CallCreateRelatedTopicEdge(topic1_id, topic2_id, similarity) ==
    \E r \in {create_related_topic_edge(nodes, edges, topic1_id, topic2_id, similarity)} :
        /\ Len(r.edges) <= MaxEdges
        /\ edges' = r.edges
        /\ call' = Call("create_related_topic_edge",
                        <<topic1_id, topic2_id, similarity>>, r.raised, None)
        /\ UNCHANGED <<nodes, topic_similarities>>

CallBuildHierarchyFromClusters(hierarchy_map) ==
    \E r \in {build_hierarchy_from_clusters(nodes, edges, topic_similarities,
                                             hierarchy_map)} :
        /\ Len(r.edges) <= MaxSubtopicEdges
        /\ edges' = r.edges
        /\ call' = Call("build_hierarchy_from_clusters", <<hierarchy_map>>, r.raised, r.ret)
        /\ UNCHANGED <<nodes, topic_similarities>>

CallBuildRelatedTopics(topic_ids) ==
    \E r \in {build_related_topics(nodes, edges, topic_similarities, topic_ids)} :
        /\ Len(r.edges) <= MaxEdges
        /\ edges' = r.edges
        /\ call' = [Call("build_related_topics", <<topic_ids>>, r.raised, r.ret)
                        EXCEPT !.repeated = (call.op = "build_related_topics"
                                             /\ call.args = <<topic_ids>>)]
        /\ UNCHANGED <<nodes, topic_similarities>>

CallCalculateCentrality(topic_id) ==
    /\ call' = Call("calculate_centrality", <<topic_id>>, NoError,
                    Some(calculate_centrality(edges, topic_id)))
    /\ UNCHANGED <<nodes, edges, topic_similarities>>

CallCalculateAllCentralities ==
    \E r \in {calculate_all_centralities(nodes, edges)} :
        /\ nodes' = r.nodes
        /\ call' = [Call("calculate_all_centralities", <<>>, NoError, Some(r.ret))
                        EXCEPT !.repeated = (call.op = "calculate_all_centralities")]
        /\ UNCHANGED <<edges, topic_similarities>>

CallGetTopicDepth(topic_id) ==
    \E r \in {get_topic_depth(edges, topic_id, {}, 1)} :
        /\ call' = Call("_get_topic_depth", <<topic_id>>, r.raised, r.ret)
        /\ UNCHANGED <<nodes, edges, topic_similarities>>

CallGetTopicPath(topic_id) ==
    \E r \in {get_topic_path(edges, topic_id)} :
        /\ call' = Call("get_topic_path", <<topic_id>>, r.raised, r.ret)
        /\ UNCHANGED <<nodes, edges, topic_similarities>>

CallGetHierarchyStatistics ==
    \E r \in {get_hierarchy_statistics(nodes, edges)} :
        /\ call' = Call("get_hierarchy_statistics", <<>>, r.raised, r.ret)
        /\ UNCHANGED <<nodes, edges, topic_similarities>>

CallClusterTopics(topics) ==
    \E r \in {cluster_topics(topics)} :
        /\ call' = Call("cluster_topics", <<topics>>, r.raised, r.ret)
        /\ UNCHANGED <<nodes, edges, topic_similarities>>

\* the value recorded is the map returned and the topics as the call left
\* them
CallBuildHierarchy(topics) ==
    \E r \in {build_hierarchy(topics)} :
        /\ call' = Call("build_hierarchy", <<topics>>, r.raised,
                        IF r.ret = None THEN None
                        ELSE Some([hierarchy |-> Val(r.ret), topics |-> r.topics]))
        /\ UNCHANGED <<nodes, edges, topic_similarities>>


CallAnalyzeDistribution ==
    \E r \in {analyze_distribution(nodes, edges)} :
        /\ call' = Call("analyze_distribution", <<>>, r.raised, r.ret)
        /\ UNCHANGED <<nodes, edges, topic_similarities>>

\* the nodes are left as the reads of the loop leave them
CallFindTrendingTopics(threshold) ==
    \E r \in {find_trending_topics(nodes, edges, threshold)} :
        /\ nodes' = r.nodes
        /\ call' = Call("find_trending_topics", <<threshold>>, r.raised, r.ret)
        /\ UNCHANGED <<edges, topic_similarities>>

CallFindNicheTopics(max_frequency) ==
    \E r \in {find_niche_topics(nodes, edges, max_frequency)} :
        /\ nodes' = r.nodes
        /\ call' = Call("find_niche_topics", <<max_frequency>>, r.raised, r.ret)
        /\ UNCHANGED <<edges, topic_similarities>>

CallCalculateCooccurrence ==
    \E r \in {calculate_cooccurrence(nodes, edges)} :
        /\ call' = Call("calculate_cooccurrence", <<>>, r.raised, r.ret)
        /\ UNCHANGED <<nodes, edges, topic_similarities>>

CallCalculateDiversityMetrics ==
    \E r \in {calculate_diversity_metrics(nodes, edges)} :
        /\ call' = Call("calculate_diversity_metrics", <<>>, r.raised, r.ret)
        /\ UNCHANGED <<nodes, edges, topic_similarities>>

\* a step of run that came back: run goes on to the step next
Continues(next) == [pipeline EXCEPT !.pc = next]

\* a step of run that raised: the try block is left for the except clause
Fails(step, error) == [pipeline EXCEPT !.pc = "except", !.failed = step, !.error = error]

\* Step 1, load_graph: the file is missing, or the graph is the one it holds
RunLoadGraph ==
    /\ pipeline.pc = "load_graph"
    /\ \/ /\ pipeline' = Fails("load_graph", "FileNotFoundError")
          /\ UNCHANGED <<nodes, edges>>
       \/ \E file \in GraphFiles :
              /\ nodes' = file.nodes
              /\ edges' = file.edges
              /\ pipeline' = Continues("generate_topic_embeddings")
    /\ UNCHANGED <<topic_similarities, call, pairs_returned>>

\* Step 2, generate_topic_embeddings: no request is made for no topics;
\* the generator answers with one vector for every topic, or fails
RunGenerateTopicEmbeddings ==
    /\ pipeline.pc = "generate_topic_embeddings"
    /\ IF query(nodes, "Topic") = {}
       THEN pipeline' = [Continues("convert_to_topic_objects") EXCEPT !.embeddings = EmptyData]
       ELSE \/ pipeline' = Fails("generate_topic_embeddings", "EmbeddingError")
            \/ \E embeddings \in [query(nodes, "Topic") -> PipelineEmbeddings] :
                   pipeline' = [Continues("convert_to_topic_objects")
                                    EXCEPT !.embeddings = embeddings]
    /\ UNCHANGED <<nodes, edges, topic_similarities, call, pairs_returned>>

\* Step 3, convert_to_topic_objects
RunConvertToTopicObjects ==
    /\ pipeline.pc = "convert_to_topic_objects"
    /\ pipeline' = [Continues("compute_similarity_matrix") EXCEPT
                        !.topics = convert_to_topic_objects(nodes, edges, pipeline.embeddings)]
    /\ UNCHANGED <<nodes, edges, topic_similarities, call, pairs_returned>>

\* Step 4, compute_similarity_matrix
RunComputeSimilarityMatrix ==
    /\ pipeline.pc = "compute_similarity_matrix"
    /\ \E r \in {compute_similarities(pipeline.topics)} :
           IF r.raised # NoError
           THEN /\ pipeline' = Fails("compute_similarity_matrix", r.raised)
                /\ UNCHANGED topic_similarities
           ELSE /\ pipeline' = Continues("cluster_topics")
                /\ topic_similarities' = Val(r.ret)
    /\ UNCHANGED <<nodes, edges, call, pairs_returned>>

\* Step 5, cluster_topics
RunClusterTopics ==
    /\ pipeline.pc = "cluster_topics"
    /\ \E r \in {cluster_topics(pipeline.topics)} :
           pipeline' = IF r.raised # NoError THEN Fails("cluster_topics", r.raised)
                       ELSE [Continues("build_hierarchy") EXCEPT !.clusters = Val(r.ret)]
    /\ UNCHANGED <<nodes, edges, topic_similarities, call, pairs_returned>>

\* Step 6, build_hierarchy: the levels are written to the topics of the list
RunBuildHierarchy ==
    /\ pipeline.pc = "build_hierarchy"
    /\ \E r \in {build_hierarchy(pipeline.topics)} :
           pipeline' = IF r.raised # NoError THEN Fails("build_hierarchy", r.raised)
                       ELSE [Continues("build_hierarchy_from_clusters") EXCEPT
                                 !.hierarchy = Val(r.ret), !.topics = r.topics]
    /\ UNCHANGED <<nodes, edges, topic_similarities, call, pairs_returned>>

\* Step 7, enrich_graph, its first call: build_hierarchy_from_clusters
RunBuildHierarchyFromClusters ==
    /\ pipeline.pc = "build_hierarchy_from_clusters"
    /\ \E r \in {build_hierarchy_from_clusters(nodes, edges, topic_similarities,
                                                pipeline.hierarchy)} :
           /\ edges' = r.edges
           /\ pipeline' = IF r.raised # NoError THEN Fails("enrich_graph", r.raised)
                          ELSE Continues("build_related_topics")
    /\ UNCHANGED <<nodes, topic_similarities, call, pairs_returned>>

\* enrich_graph, its second call: build_related_topics
RunBuildRelatedTopics ==
    /\ pipeline.pc = "build_related_topics"
    /\ \E r \in {build_related_topics(nodes, edges, topic_similarities,
                                       [i \in 1..Len(pipeline.topics) |->
                                           pipeline.topics[i].id])} :
           /\ edges' = r.edges
           /\ pipeline' = IF r.raised # NoError THEN Fails("enrich_graph", r.raised)
                          ELSE Continues("calculate_all_centralities")
    /\ UNCHANGED <<nodes, topic_similarities, call, pairs_returned>>

\* enrich_graph, its third call: calculate_all_centralities; enrich_graph
\* returns
RunCalculateAllCentralities ==
    /\ pipeline.pc = "calculate_all_centralities"
    /\ nodes' = calculate_all_centralities(nodes, edges).nodes
    /\ pipeline' = Continues("run_analysis")
    /\ UNCHANGED <<edges, topic_similarities, call, pairs_returned>>

\* Step 8, run_analysis
RunAnalysis ==
    /\ pipeline.pc = "run_analysis"
    /\ \E r \in {run_analysis(nodes, edges)} :
           /\ nodes' = r.nodes
           /\ pipeline' = IF r.raised # NoError THEN Fails("run_analysis", r.raised)
                          ELSE [Continues("export_graph") EXCEPT !.analysis = r.ret]
    /\ UNCHANGED <<edges, topic_similarities, call, pairs_returned>>

\* Step 9, export_graph: the files are written, or the file system refuses
RunExportGraph ==
    /\ pipeline.pc = "export_graph"
    /\ \/ pipeline' = Fails("export_graph", "OSError")
       \/ pipeline' = Continues("export_reports")
    /\ UNCHANGED <<nodes, edges, topic_similarities, call, pairs_returned>>

\* Step 10, export_reports: export_analysis_report makes the analysis again
\* and writes it, or the file system refuses
RunExportReports ==
    /\ pipeline.pc = "export_reports"
    /\ nodes' = find_niche_topics(find_trending_topics(nodes, edges, 5).nodes, edges, 2).nodes
    /\ \/ pipeline' = Fails("export_reports", "OSError")
       \/ pipeline' = Continues("results")
    /\ UNCHANGED <<edges, topic_similarities, call, pairs_returned>>

\* the results dict and the return statement of the try block
RunReturnResults ==
    /\ pipeline.pc = "results"
    /\ LET hierarchy == Val(pipeline.analysis).hierarchy
       IN  pipeline' =
               [Continues(after_try) EXCEPT
                    !.result = Some([success |-> TRUE,
                                     error |-> NoError,
                                     topics_processed |-> Len(pipeline.topics),
                                     clusters_created |-> Len(pipeline.clusters),
                                     hierarchy_depth |-> hierarchy.hierarchy_depth,
                                     root_topics |-> hierarchy.root_topics,
                                     subtopic_edges |-> hierarchy.subtopic_edges,
                                     related_edges |-> hierarchy.related_topic_edges,
                                     trending_topics |->
                                         Val(pipeline.analysis).trending_topics_count,
                                     niche_topics |->
                                         Val(pipeline.analysis).niche_topics_count])]
    /\ UNCHANGED <<nodes, edges, topic_similarities, call, pairs_returned>>

\* the except clause: an exception it catches becomes the failure result,
\* any other goes on to the caller once the finally clause is done
RunExcept ==
    /\ pipeline.pc = "except"
    /\ pipeline' = IF caught(pipeline.error)
                   THEN [Continues(after_try) EXCEPT
                             !.result = Some([success |-> FALSE, error |-> pipeline.error])]
                   ELSE [Continues(after_try) EXCEPT !.propagated = pipeline.error]
    /\ UNCHANGED <<nodes, edges, topic_similarities, call, pairs_returned>>

\* the finally clause: the embedding generator is closed, and run is over
RunFinally ==
    /\ pipeline.pc = "finally"
    /\ pipeline' = [Continues("returned") EXCEPT !.closed = pipeline.closed + 1]
    /\ UNCHANGED <<nodes, edges, topic_similarities, call, pairs_returned>>

----------------------------------------------------------------------------
(* Specifications *)

\* A behaviour that is no pipeline run leaves pipeline as constructed, and
\* only the behaviours that add up pair counts change pairs_returned.

\* a graph without topic edges, every topic present or T3 missing
Init ==
    /\ nodes \in {GraphOf(S) : S \in TopicSets}
    /\ topic_similarities \in SimTables
    /\ edges = <<>>
    /\ call = NoCall
    /\ pipeline = NoPipeline
    /\ pairs_returned = 0

\* the same with T3 missing
InitSmall ==
    /\ Init
    /\ nodes = GraphOf({"T1", "T2"})

\* every topic present, and a lookup that holds similarities
InitBuildRelated ==
    /\ Init
    /\ nodes = GraphOf(TopicIds)
    /\ topic_similarities # EmptyTable

\* T3 missing; the single edge creations read no lookup
InitCreate ==
    /\ InitSmall
    /\ topic_similarities = EmptyTable

\* T3 missing, and a lookup that answers in the first key order, in the
\* second, or not at all
InitHierarchy ==
    /\ InitSmall
    /\ topic_similarities \in {OneWayTable, AsymmetricTable}

\* a graph in which T1 has h incoming HAS_TOPIC edges, s incoming
\* SUBTOPIC_OF edges and r RELATED_TOPIC edge pairs with T2, as repeated
\* enrichment runs leave it
InitCentrality ==
    /\ nodes = GraphOf({"T1", "T2"})
    /\ topic_similarities = EmptyTable
    /\ \E h \in 0..MaxHasTopic, s \in 0..MaxSubtopic, r \in 0..MaxRelated :
          edges = Copies(h, <<MEdge("P1", "T1", "HAS_TOPIC", EmptyData)>>)
                  \o Copies(s, <<MEdge("T2", "T1", "SUBTOPIC_OF", EmptyData)>>)
                  \o Copies(r, <<MEdge("T1", "T2", "RELATED_TOPIC", Attr("similarity", 6)),
                                  MEdge("T2", "T1", "RELATED_TOPIC", Attr("similarity", 6))>>)
    /\ call = NoCall
    /\ pipeline = NoPipeline
    /\ pairs_returned = 0

\* single edge creations
NextCreate ==
    \/ \E c \in TopicIds, p \in TopicIds, s \in DirectSims :
          CallCreateSubtopicEdge(c, p, s) /\ UNCHANGED <<pairs_returned, pipeline>>
    \/ \E a \in TopicIds, b \in TopicIds, s \in DirectSims :
          CallCreateRelatedTopicEdge(a, b, s) /\ UNCHANGED <<pairs_returned, pipeline>>

SpecCreate == InitCreate /\ [][NextCreate]_vars

\* RELATED_TOPIC creation, single and by build_related_topics
NextRelated ==
    \/ \E a \in TopicIds, b \in TopicIds, s \in DirectSims :
          CallCreateRelatedTopicEdge(a, b, s) /\ UNCHANGED <<pairs_returned, pipeline>>
    \/ \E ids \in MixedIdLists : CallBuildRelatedTopics(ids)
            /\ UNCHANGED <<pairs_returned, pipeline>>

SpecRelated == InitSmall /\ [][NextRelated]_vars

\* repeated build_related_topics calls
NextBuildRelated ==
    \E ids \in IdLists : CallBuildRelatedTopics(ids)
        /\ UNCHANGED <<pairs_returned, pipeline>>

SpecBuildRelated == InitBuildRelated /\ [][NextBuildRelated]_vars

\* repeated build_hierarchy_from_clusters calls
NextHierarchy ==
    \E m \in HierarchyMaps : CallBuildHierarchyFromClusters(m)
        /\ UNCHANGED <<pairs_returned, pipeline>>

SpecHierarchy == InitHierarchy /\ [][NextHierarchy]_vars

\* centrality computations
NextCentrality ==
    \/ \E t \in TopicIds : CallCalculateCentrality(t) /\ UNCHANGED <<pairs_returned, pipeline>>
    \/ CallCalculateAllCentralities /\ UNCHANGED <<pairs_returned, pipeline>>

SpecCentrality == InitCentrality /\ [][NextCentrality]_vars

\* a graph of three topics holding any SUBTOPIC_OF edges between them:
\* chains, several parents, self-loops, cycles, repeated edges
InitStatistics ==
    /\ nodes = GraphOf(TopicIds)
    /\ topic_similarities = EmptyTable
    /\ edges \in SubtopicEdgeLists
    /\ call = NoCall
    /\ pipeline = NoPipeline
    /\ pairs_returned = 0

\* depth, path and statistics queries
NextStatistics ==
    \/ \E t \in TopicIds : CallGetTopicDepth(t) /\ UNCHANGED <<pairs_returned, pipeline>>
    \/ \E t \in TopicIds : CallGetTopicPath(t) /\ UNCHANGED <<pairs_returned, pipeline>>
    \/ CallGetHierarchyStatistics /\ UNCHANGED <<pairs_returned, pipeline>>

SpecStatistics == InitStatistics /\ [][NextStatistics]_vars

\* the clusterer works on topic lists alone
InitClusterer ==
    /\ nodes = GraphOf({})
    /\ topic_similarities = EmptyTable
    /\ edges = <<>>
    /\ call = NoCall
    /\ pipeline = NoPipeline
    /\ pairs_returned = 0

\* the clusterer keeps nothing from one call to the next (its fields are
\* set at construction), so a behaviour makes one call
NextClusterer ==
    \/ call = NoCall /\ \E topics \in TopicLists : CallClusterTopics(topics)
            /\ UNCHANGED <<pairs_returned, pipeline>>
    \/ call = NoCall /\ \E topics \in TopicLists \cup LongTopicLists :
                             CallBuildHierarchy(topics) /\ UNCHANGED <<pairs_returned, pipeline>>

SpecClusterer == InitClusterer /\ [][NextClusterer]_vars

\* one run of the pipeline of an enricher just constructed, its graph empty
InitPipeline ==
    /\ nodes = EmptyData
    /\ edges = <<>>
    /\ topic_similarities = EmptyData
    /\ call = NoCall
    /\ pipeline = NoPipeline
    /\ pairs_returned = 0

NextPipeline ==
    \/ RunLoadGraph
    \/ RunGenerateTopicEmbeddings
    \/ RunConvertToTopicObjects
    \/ RunComputeSimilarityMatrix
    \/ RunClusterTopics
    \/ RunBuildHierarchy
    \/ RunBuildHierarchyFromClusters
    \/ RunBuildRelatedTopics
    \/ RunCalculateAllCentralities
    \/ RunAnalysis
    \/ RunExportGraph
    \/ RunExportReports
    \/ RunReturnResults
    \/ RunExcept
    \/ RunFinally

SpecPipeline == InitPipeline /\ [][NextPipeline]_vars

\* calls of build_related_topics on a graph that holds every topic and no
\* topic edge at first, the pair counts they return added up in
\* pairs_returned, and the statistics taken in between
NextPairs ==
    \/ \E ids \in IdLists :
          /\ CallBuildRelatedTopics(ids)
          /\ pairs_returned' = pairs_returned + Val(call'.ret)
          /\ UNCHANGED pipeline
    \/ CallGetHierarchyStatistics /\ UNCHANGED <<pairs_returned, pipeline>>

SpecPairs == InitBuildRelated /\ [][NextPairs]_vars

\* a graph that holds every topic a list can name and no edge
InitMaterialize ==
    /\ nodes = GraphOf({TopicIdAt[i] : i \in 1..Len(TopicIdAt)})
    /\ topic_similarities \in {EmptyTable, SymmetricTable}
    /\ edges = <<>>
    /\ call = NoCall
    /\ pipeline = NoPipeline
    /\ pairs_returned = 0

\* build_hierarchy, and then build_hierarchy_from_clusters on the map it
\* returned
NextMaterialize ==
    \/ call = NoCall /\ \E topics \in TopicLists \cup LongTopicLists :
                             CallBuildHierarchy(topics) /\ UNCHANGED <<pairs_returned, pipeline>>
    \/ /\ call.op = "build_hierarchy"
       /\ call.ret # None
       /\ CallBuildHierarchyFromClusters(Val(call.ret).hierarchy)
       /\ UNCHANGED <<pairs_returned, pipeline>>

SpecMaterialize == InitMaterialize /\ [][NextMaterialize]_vars

InitAnalysis ==
    /\ \E g \in AnalysisGraphs :
          /\ nodes = g.nodes
          /\ edges = g.edges
    /\ topic_similarities = EmptyTable
    /\ call = NoCall
    /\ pipeline = NoPipeline
    /\ pairs_returned = 0

\* the reporting operations; none keeps anything from one call to the next,
\* so a behaviour makes one call
NextAnalysis ==
    \/ call = NoCall /\ CallAnalyzeDistribution /\ UNCHANGED <<pairs_returned, pipeline>>
    \/ call = NoCall /\ \E threshold \in 1..2 : CallFindTrendingTopics(threshold)
            /\ UNCHANGED <<pairs_returned, pipeline>>
    \/ call = NoCall /\ \E max_frequency \in 1..2 :
                             CallFindNicheTopics(max_frequency)
                                     /\ UNCHANGED <<pairs_returned, pipeline>>
    \/ call = NoCall /\ CallCalculateCooccurrence /\ UNCHANGED <<pairs_returned, pipeline>>
    \/ call = NoCall /\ CallCalculateDiversityMetrics /\ UNCHANGED <<pairs_returned, pipeline>>
    \/ call = NoCall /\ CallGetHierarchyStatistics /\ UNCHANGED <<pairs_returned, pipeline>>
    \/ call = NoCall /\ \E t \in {"T1", "T2"} : CallGetTopicDepth(t)
            /\ UNCHANGED <<pairs_returned, pipeline>>
    \/ call = NoCall /\ \E t \in {"T1", "T2"} : CallGetTopicPath(t)
            /\ UNCHANGED <<pairs_returned, pipeline>>

SpecAnalysis == InitAnalysis /\ [][NextAnalysis]_vars

----------------------------------------------------------------------------
(* Properties *)

\* the edges the last call added
Added == SubSeq(edges, call.before + 1, Len(edges))

\* the number of edges of es from a to b of the given type
EdgeCount(es, a, b, edge_type) ==
    Cardinality({i \in 1..Len(es) : /\ es[i].from_node = a
                                     /\ es[i].to_node = b
                                     /\ es[i].edge_type = edge_type})

\* the same, counting only the edges whose similarity is v
EdgeCountWith(es, a, b, edge_type, v) ==
    Cardinality({i \in 1..Len(es) : /\ es[i].from_node = a
                                     /\ es[i].to_node = b
                                     /\ es[i].edge_type = edge_type
                                     /\ es[i].data = Attr("similarity", v)})

TypeCount(es, edge_type) ==
    Cardinality({i \in 1..Len(es) : es[i].edge_type = edge_type})

Exists(topic_id) == topic_id \in DOMAIN nodes

\* C1: RELATED_TOPIC edges exist only in symmetric pairs: for all topics a
\* and b and every similarity v there are as many a->b edges carrying v as
\* b->a edges carrying v, and every RELATED_TOPIC edge carries a similarity.
C1_RelatedSymmetric ==
    /\ \A a \in TopicIds, b \in TopicIds, v \in SimVals :
          EdgeCountWith(edges, a, b, "RELATED_TOPIC", v)
            = EdgeCountWith(edges, b, a, "RELATED_TOPIC", v)
    /\ \A i \in 1..Len(edges) :
          edges[i].edge_type = "RELATED_TOPIC"
            => \E v \in SimVals : edges[i].data = Attr("similarity", v)

\* build_related_topics has added a pair to a graph that already held a
\* pair created by create_related_topic_edge
C1_Witness ==
    /\ call.op = "build_related_topics"
    /\ call.before = 2
    /\ Len(edges) = 4
    /\ edges[1].data # edges[3].data

\* C2: create_subtopic_edge never raises, whatever the ids and the
\* similarity and whether or not the endpoints exist.
C2_NeverRaises ==
    call.op = "create_subtopic_edge" => call.raised = NoError

\* the (parent, child) pairs of a hierarchy map
MapPairs(hierarchy_map) ==
    UNION {{<<hierarchy_map[k].parent, hierarchy_map[k].children[i]>> :
                i \in 1..Len(hierarchy_map[k].children)} : k \in 1..Len(hierarchy_map)}

\* C3: when build_hierarchy_from_clusters ends, every (child, parent) pair
\* of the map whose two endpoints exist has had its SUBTOPIC_OF edge
\* child -> parent created.
C3_EveryPairCreated ==
    call.op = "build_hierarchy_from_clusters"
      => \A pc \in MapPairs(call.args[1]) :
            (Exists(pc[1]) /\ Exists(pc[2]))
              => EdgeCount(Added, pc[2], pc[1], "SUBTOPIC_OF") >= 1

\* C4: create_subtopic_edge and create_related_topic_edge called with an
\* endpoint that is absent from the store leave the nodes and the edges as
\* they were.
C4_MissingEndpointNoOp ==
    [][(/\ call'.op \in {"create_subtopic_edge", "create_related_topic_edge"}
        /\ (~ Exists(call'.args[1]) \/ ~ Exists(call'.args[2])))
          => (nodes' = nodes /\ edges' = edges /\ call'.raised = NoError)]_vars

\* create_subtopic_edge was called on a graph that holds edges, with an
\* existing child and a missing parent
C4_Witness ==
    /\ call.op = "create_subtopic_edge"
    /\ Exists(call.args[1]) /\ ~ Exists(call.args[2])
    /\ Len(edges) > 0

\* C5: the count build_hierarchy_from_clusters returns is the number of
\* SUBTOPIC_OF edges the call added to the graph.
C5_CountIsEdgesAdded ==
    (call.op = "build_hierarchy_from_clusters" /\ call.raised = NoError)
      => Val(call.ret) = TypeCount(Added, "SUBTOPIC_OF")

\* the similarity build_related_topics finds for a listed before b: the
\* value under (a, b), else the value under (b, a), else None
PairSimilarity(a, b) ==
    IF <<a, b>> \in DOMAIN topic_similarities THEN Some(topic_similarities[<<a, b>>])
    ELSE IF <<b, a>> \in DOMAIN topic_similarities THEN Some(topic_similarities[<<b, a>>])
    ELSE None

Qualifies(a, b) ==
    /\ PairSimilarity(a, b) # None
    /\ ~ (Val(PairSimilarity(a, b)) < related_threshold)

Distinct(ids) == \A i \in 1..Len(ids), j \in 1..Len(ids) : i # j => ids[i] # ids[j]

\* the positions (i, j), i < j, of the qualifying pairs of a list
QualifyingPairs(ids) ==
    {ij \in (1..Len(ids)) \X (1..Len(ids)) :
        ij[1] < ij[2] /\ Qualifies(ids[ij[1]], ids[ij[2]])}

\* C6: given distinct topic ids that all exist, build_related_topics adds
\* exactly the two directed edges a->b and b->a, carrying the pair's
\* similarity, for each pair whose similarity reaches the threshold, adds
\* nothing for the other pairs, and returns the number of qualifying pairs.
C6_BuildRelatedTopics ==
    LET ids == call.args[1]
    IN  (/\ call.op = "build_related_topics"
         /\ Distinct(ids)
         /\ \A i \in 1..Len(ids) : Exists(ids[i]))
          => /\ call.raised = NoError
             /\ call.ret = Some(Cardinality(QualifyingPairs(ids)))
             /\ Len(Added) = 2 * Cardinality(QualifyingPairs(ids))
             /\ \A i \in 1..Len(ids), j \in 1..Len(ids) :
                   i < j =>
                     LET a == ids[i]
                         b == ids[j]
                         n == IF Qualifies(a, b) THEN 1 ELSE 0
                     IN  /\ EdgeCount(Added, a, b, "RELATED_TOPIC") = n
                         /\ EdgeCount(Added, b, a, "RELATED_TOPIC") = n
                         /\ Qualifies(a, b) =>
                               /\ EdgeCountWith(Added, a, b, "RELATED_TOPIC",
                                                 Val(PairSimilarity(a, b))) = 1
                               /\ EdgeCountWith(Added, b, a, "RELATED_TOPIC",
                                                 Val(PairSimilarity(a, b))) = 1

\* build_related_topics ran over three distinct existing topics of which
\* two pairs qualify and the third has no similarity
C6_Witness ==
    /\ call.op = "build_related_topics"
    /\ Len(call.args[1]) = 3
    /\ Distinct(call.args[1])
    /\ \A i \in 1..3 : Exists(call.args[1][i])
    /\ call.ret = Some(2)
    /\ Len(Added) = 4

\* C7: build_related_topics called twice in a row with the same topic ids
\* and similarities returns the same count both times and adds the same
\* number of RELATED_TOPIC edges both times, so that a graph that had none
\* before the first call holds twice as many after the second as after the
\* first.
C7_SecondCallDoubles ==
    [][(/\ call.op = "build_related_topics"
        /\ call'.op = "build_related_topics"
        /\ call'.repeated
        /\ call.raised = NoError)
          => /\ call'.raised = NoError
             /\ call'.ret = call.ret
             /\ TypeCount(edges', "RELATED_TOPIC") - TypeCount(edges, "RELATED_TOPIC")
                  = TypeCount(Added, "RELATED_TOPIC")
             /\ call.before = 0
                  => TypeCount(edges', "RELATED_TOPIC")
                       = 2 * TypeCount(edges, "RELATED_TOPIC")]_vars

\* the second of two equal calls has repeated the two edges of the first
C7_Witness ==
    /\ call.op = "build_related_topics"
    /\ call.repeated
    /\ call.before = 2
    /\ Len(edges) = 4
    /\ call.ret = Some(1)
    /\ SubSeq(edges, 1, 2) = Added

\* the edge counts the centrality of a topic is computed from
IncomingCount(topic_id, edge_type) ==
    Cardinality({i \in 1..Len(edges) : /\ edges[i].to_node = topic_id
                                        /\ edges[i].edge_type = edge_type})
OutgoingCount(topic_id, edge_type) ==
    Cardinality({i \in 1..Len(edges) : /\ edges[i].from_node = topic_id
                                        /\ edges[i].edge_type = edge_type})

\* 0.5*min(h/10, 1) + 0.3*min(s/5, 1) + 0.2*min(r/10, 1), in thousandths
CentralityFormula(h, s, r) == 50 * Min(h, 10) + 60 * Min(s, 5) + 20 * Min(r, 10)

\* C8: the centrality computed for a topic is
\* 0.5*min(h/10, 1) + 0.3*min(s/5, 1) + 0.2*min(r/10, 1) for its h incoming
\* HAS_TOPIC, s incoming SUBTOPIC_OF and r outgoing RELATED_TOPIC edges, and
\* it is exactly 1.0 when h >= 10, s >= 5 and r >= 10.
C8_CentralityFormula ==
    call.op = "calculate_centrality"
      => LET t == call.args[1]
             h == IncomingCount(t, "HAS_TOPIC")
             s == IncomingCount(t, "SUBTOPIC_OF")
             r == OutgoingCount(t, "RELATED_TOPIC")
         IN  /\ call.ret = Some(CentralityFormula(h, s, r))
             /\ (h >= 10 /\ s >= 5 /\ r >= 10) => call.ret = Some(One)

\* the centrality of a topic with 12 HAS_TOPIC, 6 SUBTOPIC_OF and 15
\* RELATED_TOPIC edges was computed
C8_Witness ==
    /\ call.op = "calculate_centrality"
    /\ IncomingCount(call.args[1], "HAS_TOPIC") = 12
    /\ IncomingCount(call.args[1], "SUBTOPIC_OF") = 6
    /\ OutgoingCount(call.args[1], "RELATED_TOPIC") = 15
    /\ call.ret = Some(One)

InUnitInterval(x) == 0 <= x /\ x <= One

\* C9: every centrality returned by calculate_centrality or
\* calculate_all_centralities, and every centrality stored on a Topic node,
\* lies in [0, 1].
C9_CentralityInUnitInterval ==
    /\ call.op = "calculate_centrality" => InUnitInterval(Val(call.ret))
    /\ call.op = "calculate_all_centralities"
         => \A t \in DOMAIN Val(call.ret) : InUnitInterval(Val(call.ret)[t])
    /\ \A n \in query(nodes, "Topic") :
         "centrality" \in DOMAIN nodes[n].data
           => InUnitInterval(nodes[n].data["centrality"])

\* a topic with more edges of every type than the scores saturate at has
\* had its centrality stored
C9_Witness ==
    \E n \in query(nodes, "Topic") :
        /\ "centrality" \in DOMAIN nodes[n].data
        /\ IncomingCount(n, "HAS_TOPIC") > max_has_topic
        /\ IncomingCount(n, "SUBTOPIC_OF") > max_subtopics
        /\ OutgoingCount(n, "RELATED_TOPIC") > max_related

\* topic.data.get('centrality', 0.0)
StoredCentrality(ns, n) ==
    IF "centrality" \in DOMAIN ns[n].data THEN ns[n].data["centrality"] ELSE 0

\* C10 as stated: after calculate_centrality(t) returns score s, the
\* centrality stored on Topic node t equals s.
C10_CalculateStores ==
    (call.op = "calculate_centrality" /\ call.args[1] \in query(nodes, "Topic"))
      => StoredCentrality(nodes, call.args[1]) = Val(call.ret)

\* C10 as amended: calculate_centrality leaves the graph as it was, and
\* calculate_all_centralities stores on every Topic node the score it
\* returns for it, which is the score calculate_centrality gives.
C10_CalculateAllStores ==
    [][/\ call'.op = "calculate_centrality" => nodes' = nodes /\ edges' = edges
       /\ call'.op = "calculate_all_centralities"
            => /\ DOMAIN Val(call'.ret) = query(nodes, "Topic")
               /\ DOMAIN nodes' = DOMAIN nodes
               /\ edges' = edges
               /\ \A t \in query(nodes, "Topic") :
                     /\ "centrality" \in DOMAIN nodes'[t].data
                     /\ nodes'[t].data["centrality"] = Val(call'.ret)[t]
                     /\ Val(call'.ret)[t] = calculate_centrality(edges, t)]_vars

\* calculate_all_centralities has stored a centrality that is not 0
C10_Witness ==
    /\ call.op = "calculate_all_centralities"
    /\ \E t \in query(nodes, "Topic") : StoredCentrality(nodes, t) > 0

\* C11: calculate_all_centralities run twice in succession, no edge added
\* or removed in between, returns the same id -> score mapping the second
\* time and leaves every node and every edge as the first run left them.
C11_RecomputeIdempotent ==
    [][(/\ call.op = "calculate_all_centralities"
        /\ call'.op = "calculate_all_centralities")
          => /\ call'.ret = call.ret
             /\ nodes' = nodes
             /\ edges' = edges]_vars

\* the second of two successive runs has ended on a graph whose topics
\* carry different centralities, one of them not 0
C11_Witness ==
    /\ call.op = "calculate_all_centralities"
    /\ call.repeated
    /\ StoredCentrality(nodes, "T1") > 0
    /\ StoredCentrality(nodes, "T1") # StoredCentrality(nodes, "T2")

\* the Topic nodes with neither an incoming nor an outgoing SUBTOPIC_OF edge
Orphans ==
    {t \in query(nodes, "Topic") :
        IncomingCount(t, "SUBTOPIC_OF") = 0 /\ OutgoingCount(t, "SUBTOPIC_OF") = 0}

\* C12: the orphan_topics statistic is the number of Topic nodes that have
\* neither an incoming nor an outgoing SUBTOPIC_OF edge, also when a topic
\* is both a parent and a child, and it is never negative.
C12_OrphanTopics ==
    (call.op = "get_hierarchy_statistics" /\ call.ret # None)
      => /\ Val(call.ret).orphan_topics = Cardinality(Orphans)
         /\ Val(call.ret).orphan_topics >= 0

\* C13: on every graph, with cycles, self-loops and several parents, the
\* depth of a topic and the hierarchy_depth statistic are returned, without
\* the recursion running away, and are at most the number of topics.
C13_DepthTerminates ==
    /\ call.op = "_get_topic_depth"
         => /\ call.raised = NoError
            /\ call.ret # None
            /\ Val(call.ret) \in 0..Cardinality(query(nodes, "Topic"))
    /\ call.op = "get_hierarchy_statistics"
         => /\ call.raised = NoError
            /\ call.ret # None
            /\ Val(call.ret).hierarchy_depth \in 0..Cardinality(query(nodes, "Topic"))

\* the statistics of a graph whose three topics form a cycle were taken:
\* only around a cycle does the depth reach the number of topics
C13_Witness ==
    /\ call.op = "get_hierarchy_statistics"
    /\ call.ret # None
    /\ Val(call.ret).hierarchy_depth = 3
    /\ \A t \in TopicIds : OutgoingCount(t, "SUBTOPIC_OF") = 1
    /\ \A t \in TopicIds : IncomingCount(t, "SUBTOPIC_OF") = 1

\* the edges from a topic of the given type, in the order of the store
Outgoing(topic_id, edge_type) == get_edges_from(edges, topic_id, edge_type)

\* C14: get_topic_path(t) returns, on every graph, a sequence that starts
\* with t, in which each next element is the target of the first outgoing
\* SUBTOPIC_OF edge of the one before, in which no node occurs twice, and
\* whose last element has no outgoing SUBTOPIC_OF edge or has a first
\* parent that is already on the path.
C14_TopicPath ==
    call.op = "get_topic_path"
      => /\ call.raised = NoError
         /\ call.ret # None
         /\ LET path == Val(call.ret)
                 last == path[Len(path)]
             IN  /\ Len(path) >= 1
                 /\ path[1] = call.args[1]
                 /\ \A k \in 1..(Len(path) - 1) :
                       /\ Outgoing(path[k], "SUBTOPIC_OF") # <<>>
                       /\ path[k + 1] = Outgoing(path[k], "SUBTOPIC_OF")[1].to_node
                 /\ Distinct(path)
                 /\ \/ Outgoing(last, "SUBTOPIC_OF") = <<>>
                    \/ \E k \in 1..Len(path) :
                          path[k] = Outgoing(last, "SUBTOPIC_OF")[1].to_node

\* a path was cut where it would have closed a cycle through all three
\* topics
C14_Witness ==
    /\ call.op = "get_topic_path"
    /\ call.ret # None
    /\ Len(Val(call.ret)) = 3
    /\ Outgoing(Val(call.ret)[3], "SUBTOPIC_OF") # <<>>
    /\ Outgoing(Val(call.ret)[3], "SUBTOPIC_OF")[1].to_node = call.args[1]

\* the topics of a list that carry an embedding
Usable(topics) == {i \in 1..Len(topics) : topics[i].embedding # None}

\* C15: every cluster cluster_topics returns has between min_cluster_size
\* and max_cluster_size members: smaller groups are discarded, never
\* returned as singletons, and no cluster returned is larger.
C15_ClusterSizes ==
    (call.op = "cluster_topics" /\ call.ret # None)
      => \A k \in 1..Len(Val(call.ret)) :
            LET cluster == Val(call.ret)[k]
            IN  /\ cluster.size = Len(cluster.topics)
                /\ min_cluster_size <= cluster.size
                /\ cluster.size <= max_cluster_size

\* of three topics with embeddings two were returned as one cluster and
\* the third, alone in its group, was discarded
C15_Witness ==
    /\ call.op = "cluster_topics"
    /\ Cardinality(Usable(call.args[1])) = 3
    /\ call.ret # None
    /\ Len(Val(call.ret)) = 1
    /\ Val(call.ret)[1].size = 2

\* C16: cluster_topics finishes on every input, also when a group above
\* max_cluster_size re-clusters into the same single group: the recursion
\* is given up and the group dropped.
C16_SplittingTerminates ==
    call.op = "cluster_topics"
      => /\ call.raised # "RecursionError"
         /\ call.ret # None

\* C17: for any topic list cluster_topics returns normally, and no cluster
\* it returns holds a topic without embedding.
C17_MissingEmbeddingExcluded ==
    call.op = "cluster_topics"
      => /\ call.raised = NoError
         /\ call.ret # None
         /\ \A k \in 1..Len(Val(call.ret)) :
               \A i \in 1..Len(Val(call.ret)[k].topics) :
                  Val(call.ret)[k].topics[i].embedding # None

\* C18: with fewer than 2 topics that carry an embedding, cluster_topics
\* and build_hierarchy return an empty result without raising, however
\* many topics are passed.
C18_FewerThanTwoUsable ==
    Cardinality(Usable(IF call.op \in {"cluster_topics", "build_hierarchy"}
                       THEN call.args[1] ELSE <<>>)) < 2
      => /\ call.op = "cluster_topics"
              => call.raised = NoError /\ call.ret = Some(<<>>)
         /\ call.op = "build_hierarchy"
              => /\ call.raised = NoError
                 /\ call.ret # None
                 /\ Val(call.ret).hierarchy = <<>>

\* the topic at i comes before the topic at k in the order of decreasing
\* frequency, topics of equal frequency in the order of the list
Precedes(topics, i, k) ==
    \/ topics[i].frequency > topics[k].frequency
    \/ topics[i].frequency = topics[k].frequency /\ i < k

\* the count topics of highest frequency
Highest(topics, count) ==
    {i \in 1..Len(topics) :
        Cardinality({k \in 1..Len(topics) : Precedes(topics, k, i)}) < count}

\* the keys of a hierarchy map, and the children listed under a key
Keys(hierarchy) == {hierarchy[k].parent : k \in 1..Len(hierarchy)}
ChildrenOf(hierarchy, key) ==
    UNION {{hierarchy[k].children[i] : i \in 1..Len(hierarchy[k].children)} :
              k \in {j \in 1..Len(hierarchy) : hierarchy[j].parent = key}}

\* the cosine of the embeddings of two topics of a list
Similarity(topics, i, k) ==
    cosine_similarity(Val(topics[i].embedding), Val(topics[k].embedding))

\* build_hierarchy was handed at least 2 topics, each with an embedding
HierarchyBuilt ==
    /\ call.op = "build_hierarchy"
    /\ Len(call.args[1]) >= 2
    /\ Usable(call.args[1]) = 1..Len(call.args[1])

\* C19: in build_hierarchy every topic outside the initial root set becomes
\* a child, at level 1, of the initial root with which it has maximum
\* similarity when that maximum reaches similarity_threshold, and otherwise
\* a root at level 0 with an empty child list; a promoted root is never a
\* parent.
C19_ChildOfMostSimilarRoot ==
    HierarchyBuilt
      => /\ call.raised = NoError
         /\ call.ret # None
         /\ LET topics == call.args[1]
                 n == Len(topics)
                 hierarchy == Val(call.ret).hierarchy
                 after == Val(call.ret).topics
                 roots == Highest(topics, Max(1, n \div 5))
             IN  \A i \in (1..n) \ roots :
                    LET best == CHOOSE r \in roots :
                                   \A q \in roots :
                                      Similarity(topics, i, q) <= Similarity(topics, i, r)
                        parents == {r \in roots :
                                       topics[i].id \in ChildrenOf(hierarchy, topics[r].id)}
                    IN  IF Similarity(topics, i, best) >= similarity_threshold
                        THEN /\ parents # {}
                             /\ \A r \in parents :
                                   Similarity(topics, i, r) = Similarity(topics, i, best)
                             /\ topics[i].id \notin Keys(hierarchy)
                             /\ after[i].level = 1
                        ELSE /\ parents = {}
                             /\ topics[i].id \in Keys(hierarchy)
                             /\ ChildrenOf(hierarchy, topics[i].id) = {}
                             /\ after[i].level = 0

\* ten topics were given two initial roots; the first has children, the
\* second has a child that reaches the threshold with the first root too,
\* and is more similar to the second
C19_Witness ==
    /\ HierarchyBuilt
    /\ call.ret # None
    /\ Len(call.args[1]) = 10
    /\ LET topics == call.args[1]
           hierarchy == Val(call.ret).hierarchy
       IN  /\ Len(hierarchy) = 2
           /\ hierarchy[1].children # <<>>
           /\ \E i \in 1..10, r \in 1..10, q \in 1..10 :
                 /\ topics[q].id = hierarchy[1].parent
                 /\ topics[r].id = hierarchy[2].parent
                 /\ topics[i].id \in ChildrenOf(hierarchy, topics[r].id)
                 /\ Similarity(topics, i, q) >= similarity_threshold
                 /\ Similarity(topics, i, r) > Similarity(topics, i, q)

\* C20: for every topic count n >= 2, build_hierarchy takes as initial
\* roots the max(1, ceil(n/5)) topics of highest frequency: they are keys
\* of the map it returns and have level 0.
C20_RootCountCeil ==
    HierarchyBuilt
      => /\ call.raised = NoError
         /\ call.ret # None
         /\ LET topics == call.args[1]
                 n == Len(topics)
             IN  \A i \in Highest(topics, Max(1, (n + 4) \div 5)) :
                    /\ topics[i].id \in Keys(Val(call.ret).hierarchy)
                    /\ Val(call.ret).topics[i].level = 0

\* the initial roots of build_hierarchy with which the topic at i has its
\* maximum similarity over the initial roots
MostSimilarRoots(topics, roots, i) ==
    {r \in roots : \A q \in roots : Similarity(topics, i, q) <= Similarity(topics, i, r)}

\* C21: when a topic outside the initial root set has the same maximal
\* similarity, at or above the threshold, to several initial roots,
\* build_hierarchy lists it under the one of them that comes first in the
\* frequency-sorted root list, and under no other.
C21_TieGoesToFirstRoot ==
    (HierarchyBuilt /\ call.ret # None)
      => LET topics == call.args[1]
             n == Len(topics)
             hierarchy == Val(call.ret).hierarchy
             roots == Highest(topics, Max(1, n \div 5))
         IN  \A i \in (1..n) \ roots :
                LET tied == MostSimilarRoots(topics, roots, i)
                    first == CHOOSE r \in tied : \A q \in tied \ {r} : Precedes(topics, r, q)
                IN  (/\ Cardinality(tied) >= 2
                     /\ \A r \in tied : Similarity(topics, i, r) >= similarity_threshold)
                      => \A r \in roots :
                            topics[i].id \in ChildrenOf(hierarchy, topics[r].id) <=> r = first

\* of ten topics the two initial roots carry the same embedding, and a topic
\* that reaches the threshold with both is listed under the first of them
C21_Witness ==
    /\ HierarchyBuilt
    /\ call.ret # None
    /\ Len(call.args[1]) = 10
    /\ LET topics == call.args[1]
           hierarchy == Val(call.ret).hierarchy
           roots == Highest(topics, 2)
       IN  \E i \in (1..10) \ roots, r \in roots, q \in roots :
              /\ Precedes(topics, r, q)
              /\ Similarity(topics, i, r) = Similarity(topics, i, q)
              /\ Similarity(topics, i, r) >= similarity_threshold
              /\ topics[i].id \in ChildrenOf(hierarchy, topics[r].id)
              /\ topics[i].id \notin ChildrenOf(hierarchy, topics[q].id)

\* C22: a run of the pipeline in which a step raised has returned a result
\* with success false and the message of the exception, and no exception
\* has left run.
C22_FailureIsReported ==
    (pipeline.pc = "returned" /\ pipeline.failed # "") =>
        /\ pipeline.propagated = NoError
        /\ pipeline.result # None
        /\ Val(pipeline.result).success = FALSE
        /\ Val(pipeline.result).error = pipeline.error
        /\ pipeline.error # NoError

C22_Witness ==
    /\ pipeline.pc = "returned"
    /\ pipeline.failed = "load_graph"
    /\ pipeline.result = Some([success |-> FALSE, error |-> "FileNotFoundError"])

\* the chains of k topics that start at topic_id, each topic a SUBTOPIC_OF
\* child of the next
Chains(topic_id, k) ==
    {p \in [1..k -> TopicIds] :
        /\ p[1] = topic_id
        /\ \A i \in 1..(k - 1) : \E e \in 1..Len(edges) :
               /\ edges[e].edge_type = "SUBTOPIC_OF"
               /\ edges[e].from_node = p[i]
               /\ edges[e].to_node = p[i + 1]}

\* no chain of SUBTOPIC_OF edges leads from a topic back to itself
Acyclic ==
    \A t \in TopicIds : \A k \in 2..(Cardinality(TopicIds) + 1) :
        \A p \in Chains(t, k) : p[k] # t

\* the number of edges of the longest chain of parents above topic_id
LongestChain(topic_id) ==
    CHOOSE d \in 0..(Cardinality(TopicIds) - 1) :
        /\ Chains(topic_id, d + 1) # {}
        /\ \A k \in (d + 2)..Cardinality(TopicIds) : Chains(topic_id, k) = {}

\* C23: on a graph whose SUBTOPIC_OF edges form no cycle, the depth of a
\* topic is the length of its longest chain of parents (0 without a parent,
\* otherwise 1 more than the deepest of its parents), and hierarchy_depth
\* is the largest depth of a Topic node.
C23_DepthIsLongestChain ==
    Acyclic =>
        /\ call.op = "_get_topic_depth"
             => /\ call.ret = Some(LongestChain(call.args[1]))
                /\ LET parents == Outgoing(call.args[1], "SUBTOPIC_OF")
                   IN  Val(call.ret) =
                           IF parents = <<>> THEN 0
                           ELSE 1 + CHOOSE d \in 0..Cardinality(TopicIds) :
                                        /\ \E i \in 1..Len(parents) :
                                               d = LongestChain(parents[i].to_node)
                                        /\ \A i \in 1..Len(parents) :
                                               d >= LongestChain(parents[i].to_node)
        /\ call.op = "get_hierarchy_statistics"
             => /\ call.ret # None
                /\ \E t \in query(nodes, "Topic") :
                       Val(call.ret).hierarchy_depth = LongestChain(t)
                /\ \A t \in query(nodes, "Topic") :
                       Val(call.ret).hierarchy_depth >= LongestChain(t)

\* the depth of a topic with two parents of different depth was taken, the
\* deeper parent listed first
C23_Witness ==
    /\ Acyclic
    /\ call.op = "_get_topic_depth"
    /\ call.ret = Some(2)
    /\ Len(Outgoing(call.args[1], "SUBTOPIC_OF")) = 2
    /\ LongestChain(Outgoing(call.args[1], "SUBTOPIC_OF")[1].to_node) = 1
    /\ LongestChain(Outgoing(call.args[1], "SUBTOPIC_OF")[2].to_node) = 0

\* C24: starting from a graph without RELATED_TOPIC edges in which every
\* topic id exists, after any number of build_related_topics calls the sum
\* of the pair counts returned is half the number of RELATED_TOPIC edges
\* leaving the topics, and it is the related_topic_edges statistic.
C24_RelatedEdgesIsPairsReturned ==
    /\ 2 * pairs_returned = TypeCount(edges, "RELATED_TOPIC")
    /\ \A i \in 1..Len(edges) :
           edges[i].edge_type = "RELATED_TOPIC" => edges[i].from_node \in query(nodes, "Topic")
    /\ call.op = "get_hierarchy_statistics"
         => /\ call.ret # None
            /\ Val(call.ret).related_topic_edges = pairs_returned

\* the statistics were taken after two calls that each related T1 and T2
C24_Witness ==
    /\ call.op = "get_hierarchy_statistics"
    /\ pairs_returned = 2
    /\ Val(call.ret).related_topic_edges = 2
    /\ EdgeCount(edges, "T1", "T2", "RELATED_TOPIC") = 2
    /\ EdgeCount(edges, "T2", "T1", "RELATED_TOPIC") = 2

\* enrich_graph was entered in this run and is over, by returning or by an
\* exception
EnrichGraphEnded ==
    \/ pipeline.failed = "enrich_graph"
    \/ pipeline.failed \in {"", "run_analysis", "export_graph", "export_reports"}
         /\ pipeline.pc \in {"run_analysis", "export_graph", "export_reports", "results",
                             "except", "finally", "returned"}

\* C25: once enrich_graph has ended, the centrality stored on every Topic
\* node is the centrality formula applied to the edge counts of the graph as
\* it is then and stays (no topic edge is added after centrality is
\* computed), the graph statistics and analytics read.
C25_CentralityOfFinalGraph ==
    EnrichGraphEnded =>
        \A t \in query(nodes, "Topic") :
            /\ "centrality" \in DOMAIN nodes[t].data
            /\ StoredCentrality(nodes, t) =
                   CentralityFormula(IncomingCount(t, "HAS_TOPIC"),
                                     IncomingCount(t, "SUBTOPIC_OF"),
                                     OutgoingCount(t, "RELATED_TOPIC"))

\* C26: the SUBTOPIC_OF edges that build_hierarchy_from_clusters makes of
\* the map build_hierarchy returned, in a graph that held every topic and no
\* such edge, form a forest of depth at most 1: no topic has two parents, no
\* topic with a parent has a child, no chain of edges leads back to its
\* start, and hierarchy_depth is at most 1.
C26_Forest ==
    call.op = "build_hierarchy_from_clusters" =>
        LET subtopic == {i \in 1..Len(edges) : edges[i].edge_type = "SUBTOPIC_OF"}
            statistics == get_hierarchy_statistics(nodes, edges)
        IN  /\ \A i \in subtopic, j \in subtopic :
                   edges[i].from_node = edges[j].from_node => i = j
            /\ \A i \in subtopic, j \in subtopic :
                   edges[i].to_node # edges[j].from_node
            /\ \A i \in subtopic : edges[i].from_node # edges[i].to_node
            /\ statistics.ret # None
            /\ Val(statistics.ret).hierarchy_depth <= 1

\* the map of a list of ten topics, two of them roots, a child under each,
\* was handed to build_hierarchy_from_clusters, which made an edge of it
C26_Witness ==
    /\ call.op = "build_hierarchy_from_clusters"
    /\ Len(call.args[1]) = 2
    /\ \A k \in 1..2 : call.args[1][k].children # <<>>
    /\ TypeCount(edges, "SUBTOPIC_OF") >= 1
    /\ Val(get_hierarchy_statistics(nodes, edges).ret).hierarchy_depth = 1

\* the number of times id is a key of the map or is listed as a child
Occurrences(hierarchy, id) ==
    Cardinality({k \in 1..Len(hierarchy) : hierarchy[k].parent = id})
      + Cardinality({kc \in UNION {{<<k, c>> : c \in 1..Len(hierarchy[k].children)} :
                                      k \in 1..Len(hierarchy)} :
                        hierarchy[kc[1]].children[kc[2]] = id})

\* C27: for at least 2 topics of distinct ids that all have embeddings, the
\* map build_hierarchy returns partitions them: every id of the list is a
\* key or is listed once in one child list, never both, the map names no
\* other id, and the call leaves a key at level 0 and a child at level 1.
C27_MapPartitionsTopics ==
    HierarchyBuilt
      => /\ call.ret # None
         /\ LET topics == call.args[1]
                 hierarchy == Val(call.ret).hierarchy
                 after == Val(call.ret).topics
                 ids == {topics[i].id : i \in 1..Len(topics)}
                 children == UNION {ChildrenOf(hierarchy, key) : key \in Keys(hierarchy)}
             IN  /\ \A id \in ids : Occurrences(hierarchy, id) = 1
                 /\ Keys(hierarchy) \cup children = ids
                 /\ Keys(hierarchy) \cap children = {}
                 /\ \A i \in 1..Len(topics) :
                       /\ after[i].id = topics[i].id
                       /\ after[i].id \in Keys(hierarchy) => after[i].level = 0
                       /\ after[i].id \in children => after[i].level = 1

\* the map of ten topics, all at level 1 before the call: it holds the two
\* roots, children, and topics that became roots for want of a similar root
C27_Witness ==
    /\ HierarchyBuilt
    /\ call.ret # None
    /\ Len(call.args[1]) = 10
    /\ \A i \in 1..10 : call.args[1][i].level = 1
    /\ LET hierarchy == Val(call.ret).hierarchy
       IN  /\ Len(hierarchy) >= 3
           /\ \E k \in 1..2 : Len(hierarchy[k].children) >= 2
           /\ hierarchy[3].children = <<>>

\* the operations that report on the graph
ReportingOperations ==
    {"get_hierarchy_statistics", "_get_topic_depth", "get_topic_path", "analyze_distribution",
     "find_trending_topics", "find_niche_topics", "calculate_cooccurrence",
     "calculate_diversity_metrics"}

\* C28: the reporting operations (hierarchy statistics, depth and path of a
\* topic, distribution, trending and niche topics, co-occurrence, diversity)
\* leave every node and every edge of the graph as they were, on graphs with
\* SUBTOPIC_OF cycles as well.
C28_ReportingReadsOnly ==
    [][call'.op \in ReportingOperations => nodes' = nodes /\ edges' = edges]_vars

\* the niche topics of a graph with a SUBTOPIC_OF cycle were taken, one of
\* them a topic that stores no centrality, and it still stores none
C28_Witness ==
    /\ call.op = "find_niche_topics"
    /\ call.ret # None
    /\ \E i \in 1..Len(Val(call.ret)) : Val(call.ret)[i].topic_id = "T2"
    /\ "centrality" \notin DOMAIN nodes["T2"].data
    /\ EdgeCount(edges, "T1", "T2", "SUBTOPIC_OF") = 1
    /\ EdgeCount(edges, "T2", "T1", "SUBTOPIC_OF") = 1

\* the pages from which a HAS_TOPIC edge leads to the topic
PagesOf(topic_id) ==
    {p \in query(nodes, "Page") : EdgeCount(edges, p, topic_id, "HAS_TOPIC") >= 1}

\* C30: the co-occurrence matrix is square over the Topic nodes and
\* symmetric on every graph; when no page has two HAS_TOPIC edges to the
\* same topic, entry [i][j] is the number of pages with an edge to both
\* topic i and topic j, and entry [i][i] the number of pages with an edge to
\* topic i.  HAS_TOPIC edges that lead to anything but a Topic node count
\* for nothing.
C30_CooccurrenceSymmetric ==
    call.op = "calculate_cooccurrence"
      => /\ call.ret # None
         /\ LET topics == Val(call.ret).topics
                 matrix == Val(call.ret).matrix
                 n == Len(topics)
             IN  /\ {topics[i] : i \in 1..n} = query(nodes, "Topic")
                 /\ DOMAIN matrix = (1..n) \X (1..n)
                 /\ \A i \in 1..n, j \in 1..n : matrix[<<i, j>>] = matrix[<<j, i>>]
                 /\ (\A p \in query(nodes, "Page"), t \in query(nodes, "Topic") :
                        EdgeCount(edges, p, t, "HAS_TOPIC") <= 1)
                      => \A i \in 1..n, j \in 1..n :
                            matrix[<<i, j>>] =
                                Cardinality(PagesOf(topics[i]) \cap PagesOf(topics[j]))

\* the matrix of a graph in which one page has both topics, the other page
\* one of them, and a HAS_TOPIC edge leads to a page
C30_Witness ==
    /\ call.op = "calculate_cooccurrence"
    /\ Len(Val(call.ret).topics) = 2
    /\ Val(call.ret).matrix[<<1, 2>>] = 1
    /\ Val(call.ret).matrix[<<2, 1>>] = 1
    /\ \E i \in 1..2 : Val(call.ret).matrix[<<i, i>>] = 1
    /\ EdgeCount(edges, "P1", "P2", "HAS_TOPIC") = 1
    /\ \A p \in query(nodes, "Page"), t \in query(nodes, "Topic") :
           EdgeCount(edges, p, t, "HAS_TOPIC") <= 1

\* C29: when run has returned, with the results of a run whose steps all
\* succeeded or with the failure result of a run in which a step raised,
\* the embedding generator has been closed.
C29_ClosedBeforeReturn ==
    pipeline.pc = "returned" => pipeline.closed = 1

\* a run whose steps all succeeded has returned its results
C29_Witness ==
    /\ pipeline.pc = "returned"
    /\ pipeline.failed = ""
    /\ pipeline.result # None
    /\ Val(pipeline.result).success
    /\ Val(pipeline.result).topics_processed = 3
    /\ pipeline.closed = 1

=============================================================================
